---- MODULE Spec2Model ----
(***************************************************************************)
(* Budget-Planer backend (backend/core): the rule engine of models.py      *)
(* (status classification, monthly/yearly aggregation, category totals,    *)
(* salary-reduction and tax amounts, templates) and the write paths of     *)
(* views.py: entries, the import of a budget, the summary it is exported   *)
(* with, and the templates made from and applied to budgets.               *)
(*                                                                         *)
(* Decimal amounts of DecimalField(max_digits=10, decimal_places=2) are    *)
(* integers counting hundredths.  A Python value that may be None, a       *)
(* Decimal, a JSON number or a JSON string is a record [kind, v].          *)
(***************************************************************************)
EXTENDS Integers, Sequences, FiniteSets, TLC

VARIABLES budgets, categories, entries, nextBudgetId, nextCategoryId, call,
          tax_entries, salary_reductions, actual_balances,
          templates, nextTemplateId, requests

vars == <<budgets, categories, entries, nextBudgetId, nextCategoryId, call,
          tax_entries, salary_reductions, actual_balances,
          templates, nextTemplateId, requests>>

dbvars == <<budgets, categories, entries, nextBudgetId, nextCategoryId>>

\* the rows a budget owns besides its categories (related_name of each model)
ownedvars == <<tax_entries, salary_reductions, actual_balances>>

\* the templates and the create_from_budget requests in progress
tplvars == <<templates, nextTemplateId, requests>>

(***************************************************************************)
(* Bounds of the model                                                     *)
(***************************************************************************)
\* amounts of the rule-engine checks are multiples of AmountUnit hundredths
AmountUnit == 10000

\* ... from -MaxUnits to MaxUnits units
MaxUnits == 31

\* gross salaries of the reduction checks go up to MaxGrossUnits units
MaxGrossUnits == 3

\* rows (budgets, categories, entries, owned rows, templates) inserted and
\* create_from_budget requests received in one history of the store
MaxRows == 5

(***************************************************************************)
(* Python values                                                           *)
(***************************************************************************)
None == [kind |-> "None", v |-> 0]

Dec(c) == [kind |-> "Decimal", v |-> c]

Num(c) == [kind |-> "number", v |-> c]

Str(c) == [kind |-> "str", v |-> c]

\* Python truthiness, negated: None, a zero Decimal and a zero number are
\* falsy; a JSON string holding a numeral is a non-empty str, hence truthy.
Not(x) == \/ x.kind = "None"
          \/ (x.kind \in {"Decimal", "number"} /\ x.v = 0)

\* x == 0 in Python: a str never equals the int 0, None neither.
EqZero(x) == x.kind \in {"Decimal", "number"} /\ x.v = 0

\* x or y
Or(x, y) == IF Not(x) THEN y ELSE x

\* Decimal(x) for a Decimal, a number or a numeral string: its value.
ToDecimal(x) == x.v

CATEGORY_TYPES == {"INCOME", "FIXED_EXPENSE", "VARIABLE_EXPENSE", "SAVINGS"}

STATUS_CHOICES == {"WITHIN_BUDGET", "WARNING", "OVER_BUDGET"}

REDUCTION_TYPES == {"PERCENTAGE", "FIXED"}

(***************************************************************************)
(* BudgetEntry.calculate_status                                            *)
(***************************************************************************)
\* (actual / planned) * 100 as the exact fraction num/den with den > 0.  The
\* Decimal context keeps 28 significant digits and both amounts have at most
\* 10, so rounding of the quotient never moves it across 90 or 100.
Percentage(actual, planned) ==
    IF planned > 0 THEN [num |-> 100 * actual, den |-> planned]
    ELSE [num |-> 0 - (100 * actual), den |-> 0 - planned]

\* percentage >= k
PctGE(percentage, k) == percentage.num >= k * percentage.den

\* percentage <= k
PctLE(percentage, k) == percentage.num <= k * percentage.den

\* line 205: not self.actual_amount or self.actual_amount == 0
ActualMissing_IsNoneOnly(actual_amount) == actual_amount.kind = "None"

ActualMissing(actual_amount) == Not(actual_amount) \/ EqZero(actual_amount)

\* line 212: the planned == 0 special case
ZeroPlannedStatus_AlwaysOver(actual) == "OVER_BUDGET"

ZeroPlannedStatus(actual) == IF actual > 0 THEN "OVER_BUDGET" ELSE "WITHIN_BUDGET"

\* lines 218-223: income, actual should reach planned
IncomeStatus_Strict(percentage) ==
    IF percentage.num > 100 * percentage.den THEN "WITHIN_BUDGET"
    ELSE IF percentage.num > 90 * percentage.den THEN "WARNING"
    ELSE "OVER_BUDGET"

IncomeStatus(percentage) ==
    IF PctGE(percentage, 100) THEN "WITHIN_BUDGET"
    ELSE IF PctGE(percentage, 90) THEN "WARNING"
    ELSE "OVER_BUDGET"

\* lines 226-231: expenses and savings, actual should stay below planned
ExpenseStatus_Strict(percentage) ==
    IF percentage.num < 90 * percentage.den THEN "WITHIN_BUDGET"
    ELSE IF percentage.num < 100 * percentage.den THEN "WARNING"
    ELSE "OVER_BUDGET"

ExpenseStatus(percentage) ==
    IF PctLE(percentage, 90) THEN "WITHIN_BUDGET"
    ELSE IF PctLE(percentage, 100) THEN "WARNING"
    ELSE "OVER_BUDGET"

\* The run of calculate_status: the status returned and whether the division
\* of line 214 was executed.
CalculateStatusRun(planned_amount, actual_amount, category_type) ==
    IF ActualMissing(actual_amount)
    THEN [status |-> "WITHIN_BUDGET", divided |-> FALSE]
    ELSE LET planned == planned_amount
             actual  == ToDecimal(actual_amount)
         IN IF planned = 0
            THEN [status |-> ZeroPlannedStatus(actual), divided |-> FALSE]
            ELSE LET percentage == Percentage(actual, planned)
                 IN [status |-> IF category_type = "INCOME"
                                THEN IncomeStatus(percentage)
                                ELSE ExpenseStatus(percentage),
                     divided |-> TRUE]

calculate_status(planned_amount, actual_amount, category_type) ==
    CalculateStatusRun(planned_amount, actual_amount, category_type).status

(***************************************************************************)
(* SalaryReduction.calculate_amount                                        *)
(***************************************************************************)
\* A Decimal result: coeff * 10^(-scale).  value and gross_salary have two
\* decimal places; the product has four, the quotient by Decimal('100') six.
calculate_amount_NoZeroCheck(reduction_type, value, gross_salary) ==
    IF reduction_type = "PERCENTAGE"
    THEN [coeff |-> ToDecimal(gross_salary) * value, scale |-> 6]
    ELSE [coeff |-> value, scale |-> 2]

calculate_amount(reduction_type, value, gross_salary) ==
    IF Not(gross_salary) \/ EqZero(gross_salary)
    THEN [coeff |-> 0, scale |-> 0]
    ELSE IF reduction_type = "PERCENTAGE"
         THEN [coeff |-> ToDecimal(gross_salary) * value, scale |-> 6]
         ELSE [coeff |-> value, scale |-> 2]

(***************************************************************************)
(* TaxEntry.calculate_amount                                               *)
(***************************************************************************)
\* percentage has two decimal places like the salary: the quotient of their
\* product by Decimal('100') has six
TaxEntry_calculate_amount_NoDivision(percentage, salary_amount) ==
    IF Not(salary_amount) \/ EqZero(salary_amount)
    THEN [coeff |-> 0, scale |-> 0]
    ELSE [coeff |-> ToDecimal(salary_amount) * percentage, scale |-> 4]

TaxEntry_calculate_amount(percentage, salary_amount) ==
    IF Not(salary_amount) \/ EqZero(salary_amount)
    THEN [coeff |-> 0, scale |-> 0]
    ELSE [coeff |-> ToDecimal(salary_amount) * percentage, scale |-> 6]

(***************************************************************************)
(* Rule-engine specification: one call of a pure function on drawn inputs  *)
(***************************************************************************)
Amounts == {k * AmountUnit : k \in (0 - MaxUnits)..MaxUnits}

NoCall == [fn |-> "none", pc |-> "idle"]

StatusCalls ==
    [fn : {"calculate_status"}, pc : {"call"},
     planned_amount : Amounts,
     actual_amount  : {None} \cup {Dec(a) : a \in Amounts} \cup {Str(a) : a \in Amounts},
     category_type  : CATEGORY_TYPES]

\* SalaryReduction.value is validated >= 0 (MinValueValidator(0))
ReductionValues == {0, 1, 250, 300}

GrossSalaries == {k * AmountUnit : k \in (0 - 1)..MaxGrossUnits}

AmountCalls ==
    [fn : {"calculate_amount"}, pc : {"call"},
     reduction_type : REDUCTION_TYPES,
     value : ReductionValues,
     gross_salary : {None} \cup {Dec(g) : g \in GrossSalaries}]

\* TaxEntry.percentage is validated to lie in 0..100 (two decimal places)
TaxPercentages == {0, 1, 1050, 10000}

TaxCalls ==
    [fn : {"TaxEntry.calculate_amount"}, pc : {"call"},
     percentage : TaxPercentages,
     salary_amount : {None} \cup {Dec(g) : g \in GrossSalaries}]

EmptyDb ==
    /\ budgets = {}
    /\ categories = {}
    /\ entries = {}
    /\ nextBudgetId = 1
    /\ nextCategoryId = 1
    /\ tax_entries = {}
    /\ salary_reductions = {}
    /\ actual_balances = {}
    /\ templates = {}
    /\ nextTemplateId = 1
    /\ requests = <<>>

\* a store with one budget and one row of each kind the rule engine reads
SampleDb ==
    /\ budgets = {[id |-> 1, name |-> [base |-> "Home", stamp |-> 0]]}
    /\ categories =
          {[id |-> 1, budget |-> 1, name |-> "Salary", category_type |-> "INCOME",
            order |-> 1, is_active |-> TRUE, input_mode |-> "MONTHLY",
            custom_months |-> None, custom_start_month |-> Num(1),
            yearly_amount |-> None]}
    /\ entries =
          {[category |-> 1, month |-> 1, year |-> 2026,
            planned_amount |-> 10 * AmountUnit, actual_amount |-> None,
            notes |-> "", status |-> "WITHIN_BUDGET"]}
    /\ nextBudgetId = 2
    /\ nextCategoryId = 2
    /\ tax_entries =
          {[budget |-> 1, name |-> "Income tax", percentage |-> 1050,
            order |-> 1, is_active |-> TRUE]}
    /\ salary_reductions =
          {[budget |-> 1, name |-> "AHV", reduction_type |-> "PERCENTAGE",
            value |-> 530, order |-> 1, is_active |-> TRUE]}
    /\ actual_balances = {}
    /\ templates = {}
    /\ nextTemplateId = 1
    /\ requests = <<>>

InitRules ==
    /\ EmptyDb \/ SampleDb
    /\ call \in StatusCalls \cup AmountCalls \cup TaxCalls

CallCalculateStatus ==
    /\ call.fn = "calculate_status"
    /\ call.pc = "call"
    /\ call' = [fn |-> "calculate_status", pc |-> "done",
                planned_amount |-> call.planned_amount,
                actual_amount |-> call.actual_amount,
                category_type |-> call.category_type,
                run |-> CalculateStatusRun(call.planned_amount, call.actual_amount,
                                           call.category_type)]
    /\ UNCHANGED <<dbvars, ownedvars, tplvars>>

CallCalculateAmount ==
    /\ call.fn = "calculate_amount"
    /\ call.pc = "call"
    /\ call' = [fn |-> "calculate_amount", pc |-> "done",
                reduction_type |-> call.reduction_type,
                value |-> call.value,
                gross_salary |-> call.gross_salary,
                result |-> calculate_amount(call.reduction_type, call.value,
                                            call.gross_salary)]
    /\ UNCHANGED <<dbvars, ownedvars, tplvars>>

CallTaxCalculateAmount ==
    /\ call.fn = "TaxEntry.calculate_amount"
    /\ call.pc = "call"
    /\ call' = [fn |-> "TaxEntry.calculate_amount", pc |-> "done",
                percentage |-> call.percentage,
                salary_amount |-> call.salary_amount,
                result |-> TaxEntry_calculate_amount(call.percentage,
                                                     call.salary_amount)]
    /\ UNCHANGED <<dbvars, ownedvars, tplvars>>

NextRules == CallCalculateStatus \/ CallCalculateAmount \/ CallTaxCalculateAmount

SpecRules == InitRules /\ [][NextRules]_vars

(***************************************************************************)
(* The store: budgets, categories and entries                              *)
(***************************************************************************)
\* validators of BudgetEntry.month and BudgetEntry.year
MAX_MONTH == 12

MIN_YEAR == 2000

MAX_YEAR == 2100

\* A budget name: `base`, followed by " (Import <stamp>)" when stamp > 0
Name(base) == [base |-> base, stamp |-> 0]

\* f"{budget_name} (Import {timestamp})"
ImportName(name, timestamp) == [base |-> name.base, stamp |-> timestamp]

BudgetNames == {Name("Home"), Name("Trip")}

\* datetime.now().strftime('%Y%m%d_%H%M%S'): the second a request runs in
Timestamps == {1}

\* category shapes a client creates (names and types of the test fixtures)
CategoryInputs ==
    {[name |-> "Salary", category_type |-> "INCOME", order |-> 1, is_active |-> TRUE],
     [name |-> "Fund", category_type |-> "SAVINGS", order |-> 2, is_active |-> TRUE]}

\* notes of an entry a client writes
NotesInputs == {""}

MonthInputs == {1, MAX_MONTH}

\* a month the validators reject
InvalidMonthInputs == {MAX_MONTH + 1}

YearInputs == {2025, 2026}

PlannedInputs == {10 * AmountUnit}

ActualInputs == {None, Dec(0), Dec(9 * AmountUnit)}

\* actual_amount of a PATCH .../actual body: missing or null, a JSON number
\* or a JSON string (the API itself renders decimals as strings)
RawActualInputs == {None, Num(0), Str(0), Str(9 * AmountUnit)}

\* rows inserted and create_from_budget requests received so far; an entry
\* is identified by its unique key (category, month, year), so the entries
\* are counted as they stand
RowsInserted ==
    (nextBudgetId - 1) + (nextCategoryId - 1) + (nextTemplateId - 1)
        + Len(requests) + Cardinality(entries)
        + Cardinality(tax_entries) + Cardinality(salary_reductions)
        + Cardinality(actual_balances)

BudgetById(id) == CHOOSE b \in budgets : b.id = id

CategoryById(id) == CHOOSE c \in categories : c.id = id

\* on_delete=CASCADE of BudgetCategory.budget and BudgetEntry.category
CategoriesOf(budget_id) == {c \in categories : c.budget = budget_id}

EntriesOf(budget_id) ==
    {e \in entries : \E c \in CategoriesOf(budget_id) : e.category = c.id}

\* BudgetCategorySerializer(data=...).save(budget=budget): the serializer
\* writes name, category_type, order and is_active; the other columns take
\* the defaults of the model
NewCategory(id, budget_id, data) ==
    [id |-> id, budget |-> budget_id, name |-> data.name,
     category_type |-> data.category_type, order |-> data.order,
     is_active |-> data.is_active,
     input_mode |-> "MONTHLY", custom_months |-> None,
     custom_start_month |-> Num(1), yearly_amount |-> None]

\* DecimalField.to_python on save: what the column holds for an attribute
ToColumn(x) == IF x.kind = "None" THEN None ELSE Dec(ToDecimal(x))

\* BudgetEntry.save: the status is computed from the instance's attributes,
\* then the row is written
SavedEntry(category, month, year, planned_amount, actual_attr, notes) ==
    [category |-> category, month |-> month, year |-> year,
     planned_amount |-> planned_amount,
     actual_amount |-> ToColumn(actual_attr),
     notes |-> notes,
     status |-> calculate_status(planned_amount, actual_attr,
                                 CategoryById(category).category_type)]

\* BudgetEntrySerializer.is_valid: field validators and unique_together
\* (category, month, year) against the other rows
EntryValid(others, category, month, year) ==
    /\ \E c \in categories : c.id = category
    /\ month >= 1 /\ month <= MAX_MONTH
    /\ year >= MIN_YEAR /\ year <= MAX_YEAR
    /\ ~\E e \in others : /\ e.category = category
                          /\ e.month = month
                          /\ e.year = year

\* POST /budgets/
CreateBudget(name) ==
    /\ RowsInserted < MaxRows
    /\ IF \E b \in budgets : b.name = name
       THEN UNCHANGED dbvars
       ELSE /\ budgets' = budgets \cup {[id |-> nextBudgetId, name |-> name]}
            /\ nextBudgetId' = nextBudgetId + 1
            /\ UNCHANGED <<categories, entries, nextCategoryId>>
    /\ UNCHANGED <<call, ownedvars, tplvars>>

\* DELETE /budgets/{id}/
DestroyBudget_KeepsEntries(id) ==
    /\ \E b \in budgets : b.id = id
    /\ budgets' = {b \in budgets : b.id # id}
    /\ categories' = categories \ CategoriesOf(id)
    /\ entries' = entries
    /\ tax_entries' = {t \in tax_entries : t.budget # id}
    /\ salary_reductions' = {r \in salary_reductions : r.budget # id}
    /\ actual_balances' = {a \in actual_balances : a.budget # id}
    /\ UNCHANGED <<nextBudgetId, nextCategoryId, call, tplvars>>

DestroyBudget(id) ==
    /\ \E b \in budgets : b.id = id
    /\ budgets' = {b \in budgets : b.id # id}
    /\ categories' = categories \ CategoriesOf(id)
    /\ entries' = entries \ EntriesOf(id)
    /\ tax_entries' = {t \in tax_entries : t.budget # id}
    /\ salary_reductions' = {r \in salary_reductions : r.budget # id}
    /\ actual_balances' = {a \in actual_balances : a.budget # id}
    /\ UNCHANGED <<nextBudgetId, nextCategoryId, call, tplvars>>

\* POST /budgets/{id}/add_category
AddCategory(budget_id, data) ==
    /\ RowsInserted < MaxRows
    /\ \E b \in budgets : b.id = budget_id
    /\ IF \E c \in CategoriesOf(budget_id) : c.name = data.name
       THEN UNCHANGED dbvars
       ELSE /\ categories' = categories \cup
                   {NewCategory(nextCategoryId, budget_id, data)}
            /\ nextCategoryId' = nextCategoryId + 1
            /\ UNCHANGED <<budgets, entries, nextBudgetId>>
    /\ UNCHANGED <<call, ownedvars, tplvars>>

\* POST /entries/
CreateEntry(category, month, year, planned_amount, actual_amount, notes) ==
    /\ RowsInserted < MaxRows
    /\ IF EntryValid(entries, category, month, year)
       THEN entries' = entries \cup
                   {SavedEntry(category, month, year, planned_amount, actual_amount,
                               notes)}
       ELSE UNCHANGED entries
    /\ UNCHANGED <<budgets, categories, nextBudgetId, nextCategoryId, call, ownedvars, tplvars>>

\* PUT /entries/{id}/
UpdateEntry(entry, category, month, year, planned_amount, actual_amount, notes) ==
    /\ entry \in entries
    /\ IF EntryValid(entries \ {entry}, category, month, year)
       THEN entries' = (entries \ {entry}) \cup
                   {SavedEntry(category, month, year, planned_amount, actual_amount,
                               notes)}
       ELSE UNCHANGED entries
    /\ UNCHANGED <<budgets, categories, nextBudgetId, nextCategoryId, call, ownedvars, tplvars>>

\* PATCH /entries/{id}/ with one of the amounts
PartialUpdateEntry(entry, field, value) ==
    /\ entry \in entries
    /\ entries' = (entries \ {entry}) \cup
          {IF field = "planned_amount"
           THEN SavedEntry(entry.category, entry.month, entry.year,
                           ToDecimal(value), entry.actual_amount, entry.notes)
           ELSE SavedEntry(entry.category, entry.month, entry.year,
                           entry.planned_amount, value, entry.notes)}
    /\ UNCHANGED <<budgets, categories, nextBudgetId, nextCategoryId, call, ownedvars, tplvars>>

\* BudgetEntryViewSet.actual: the status of the response and the entries it
\* leaves.  The raw request value is put on the instance and the instance
\* is saved; a missing or null value is answered with 400.
ActualRun_AcceptsNull(entry, actual_amount) ==
    [status |-> 200,
     entries |-> (entries \ {entry}) \cup
               {SavedEntry(entry.category, entry.month, entry.year,
                           entry.planned_amount, actual_amount, entry.notes)}]

ActualRun(entry, actual_amount) ==
    IF actual_amount = None
    THEN [status |-> 400, entries |-> entries]
    ELSE [status |-> 200,
          entries |-> (entries \ {entry}) \cup
               {SavedEntry(entry.category, entry.month, entry.year,
                           entry.planned_amount, actual_amount, entry.notes)}]

\* PATCH /entries/{id}/actual
ActualEntry(entry, actual_amount) ==
    /\ entry \in entries
    /\ entries' = ActualRun(entry, actual_amount).entries
    /\ UNCHANGED <<budgets, categories, nextBudgetId, nextCategoryId, call, ownedvars, tplvars>>

\* DELETE /entries/{id}/
DestroyEntry(entry) ==
    /\ entry \in entries
    /\ entries' = entries \ {entry}
    /\ UNCHANGED <<budgets, categories, nextBudgetId, nextCategoryId, call, ownedvars, tplvars>>

\* BudgetCategorySerializer.is_valid on the body of an update: a name and
\* one of the category types
CategoryValid(data) ==
    /\ data.name # "None"
    /\ data.category_type \in CATEGORY_TYPES

\* PUT or PATCH /categories/{id}/: the serializer writes name, category_type,
\* order and is_active on the row and saves it; the entries of the category
\* are not saved.  The name of another category of the budget makes save()
\* raise IntegrityError (budget is read-only in the serializer, so
\* unique_together is not validated) and the row stays as it is.
UpdateCategory(category, data) ==
    /\ category \in categories
    /\ IF /\ CategoryValid(data)
          /\ ~\E c \in CategoriesOf(category.budget) :
                 c.id # category.id /\ c.name = data.name
       THEN categories' = (categories \ {category}) \cup
               {[category EXCEPT !.name = data.name,
                                 !.category_type = data.category_type,
                                 !.order = data.order,
                                 !.is_active = data.is_active]}
       ELSE UNCHANGED categories
    /\ UNCHANGED <<budgets, entries, nextBudgetId, nextCategoryId, call, ownedvars, tplvars>>

\* DELETE /categories/{id}/: the entries of the category go with it
DestroyCategory(category) ==
    /\ category \in categories
    /\ categories' = categories \ {category}
    /\ entries' = {e \in entries : e.category # category.id}
    /\ UNCHANGED <<budgets, nextBudgetId, nextCategoryId, call, ownedvars, tplvars>>

(***************************************************************************)
(* POST /budgets/import                                                    *)
(***************************************************************************)
\* DecimalField.to_internal_value of a serializer: a JSON string or number
\* becomes a Decimal, null stays None
to_internal_value(x) == IF x.kind = "None" THEN None ELSE Dec(ToDecimal(x))

\* BudgetCategorySerializer.is_valid on a payload category: name and
\* category_type are required
ImportCategoryValid(cat_data) ==
    /\ cat_data.name # "None"
    /\ cat_data.category_type \in CATEGORY_TYPES

\* the loop of lines 200-218 from index i on; `mapping` is
\* category_id_mapping as a set of <<old id, new id>> pairs; a payload
\* category without an id has id 0 (old_id is falsy).  The serializer
\* does not check unique_together (budget, name) because budget is read-only:
\* a second category of the same name makes save() raise IntegrityError,
\* which leaves the handler without the clean-up of line 217.
RECURSIVE ImportCategoriesLoop(_, _, _, _, _, _)
ImportCategoriesLoop(budget_id, categories_data, i, cats, next_id, mapping) ==
    IF i > Len(categories_data)
    THEN [outcome |-> "ok", categories |-> cats, nextCategoryId |-> next_id,
          mapping |-> mapping]
    ELSE LET cat_data == categories_data[i]
             old_id == cat_data.id
         IN IF ~ImportCategoryValid(cat_data)
            THEN [outcome |-> "invalid", categories |-> cats,
                  nextCategoryId |-> next_id, mapping |-> mapping]
            ELSE IF \E c \in cats : c.budget = budget_id /\ c.name = cat_data.name
            THEN [outcome |-> "raised", categories |-> cats,
                  nextCategoryId |-> next_id, mapping |-> mapping]
            ELSE ImportCategoriesLoop(budget_id, categories_data, i + 1,
                    cats \cup {NewCategory(next_id, budget_id, cat_data)},
                    next_id + 1,
                    IF old_id # 0
                    THEN {p \in mapping : p[1] # old_id} \cup {<<old_id, next_id>>}
                    ELSE mapping)

\* BudgetEntrySerializer.is_valid on a payload entry: planned_amount is
\* passed explicitly and may not be null
ImportEntryValid(ents, cats, category, entry_data) ==
    /\ entry_data.planned_amount # None
    /\ \E c \in cats : c.id = category
    /\ entry_data.month >= 1 /\ entry_data.month <= MAX_MONTH
    /\ entry_data.year >= MIN_YEAR /\ entry_data.year <= MAX_YEAR
    /\ ~\E e \in ents : /\ e.category = category
                        /\ e.month = entry_data.month
                        /\ e.year = entry_data.year

\* entry_serializer.save(): the row of a payload entry under its new category
ImportedEntry_NoNotes(new_category_id, entry_data, cats) ==
    [category |-> new_category_id,
     month |-> entry_data.month,
     year |-> entry_data.year,
     planned_amount |-> ToDecimal(entry_data.planned_amount),
     actual_amount |-> to_internal_value(entry_data.actual_amount),
     notes |-> "",
     status |-> calculate_status(
                   ToDecimal(entry_data.planned_amount),
                   to_internal_value(entry_data.actual_amount),
                   (CHOOSE c \in cats : c.id = new_category_id).category_type)]

ImportedEntry(new_category_id, entry_data, cats) ==
    [category |-> new_category_id,
     month |-> entry_data.month,
     year |-> entry_data.year,
     planned_amount |-> ToDecimal(entry_data.planned_amount),
     actual_amount |-> to_internal_value(entry_data.actual_amount),
     notes |-> entry_data.notes,
     status |-> calculate_status(
                   ToDecimal(entry_data.planned_amount),
                   to_internal_value(entry_data.actual_amount),
                   (CHOOSE c \in cats : c.id = new_category_id).category_type)]

\* the loop of lines 221-239 from index i on
RECURSIVE ImportEntriesLoop(_, _, _, _, _)
ImportEntriesLoop(entries_data, i, ents, cats, mapping) ==
    IF i > Len(entries_data)
    THEN [outcome |-> "ok", entries |-> ents]
    ELSE LET entry_data == entries_data[i]
             found == {p \in mapping : p[1] = entry_data.category}
         IN IF found = {}
            THEN ImportEntriesLoop(entries_data, i + 1, ents, cats, mapping)
            ELSE LET new_category_id == (CHOOSE p \in found : TRUE)[2]
                 IN IF ImportEntryValid(ents, cats, new_category_id, entry_data)
                    THEN ImportEntriesLoop(entries_data, i + 1,
                            ents \cup {ImportedEntry(new_category_id, entry_data, cats)},
                            cats, mapping)
                    ELSE [outcome |-> "invalid", entries |-> ents]

\* TaxEntrySerializer.is_valid on the data of lines 243-248: a name, and a
\* percentage between 0 and 100
ImportTaxValid(tax_data) ==
    /\ tax_data.name # "None"
    /\ tax_data.percentage # None
    /\ ToDecimal(tax_data.percentage) >= 0
    /\ ToDecimal(tax_data.percentage) <= 100 * 100

\* the loop of lines 242-253 from index i on.  As for the categories, the
\* budget comes from save(budget=budget): unique_together (budget, name) is
\* left to the database.
RECURSIVE ImportTaxLoop(_, _, _, _)
ImportTaxLoop(budget_id, tax_entries_data, i, rows) ==
    IF i > Len(tax_entries_data)
    THEN [outcome |-> "ok", rows |-> rows]
    ELSE LET tax_data == tax_entries_data[i]
         IN IF ~ImportTaxValid(tax_data)
            THEN [outcome |-> "invalid", rows |-> rows]
            ELSE IF \E t \in rows : t.budget = budget_id /\ t.name = tax_data.name
            THEN [outcome |-> "raised", rows |-> rows]
            ELSE ImportTaxLoop(budget_id, tax_entries_data, i + 1,
                    rows \cup {[budget |-> budget_id, name |-> tax_data.name,
                                percentage |-> ToDecimal(tax_data.percentage),
                                order |-> tax_data.order,
                                is_active |-> tax_data.is_active]})

\* SalaryReductionSerializer.is_valid on the data of lines 257-263: a name, a
\* reduction type of REDUCTION_TYPES and a value that is not negative
ImportReductionValid(reduction_data) ==
    /\ reduction_data.name # "None"
    /\ reduction_data.reduction_type \in REDUCTION_TYPES
    /\ reduction_data.value # None
    /\ ToDecimal(reduction_data.value) >= 0

\* the loop of lines 256-268 from index i on
RECURSIVE ImportReductionsLoop(_, _, _, _)
ImportReductionsLoop(budget_id, salary_reductions_data, i, rows) ==
    IF i > Len(salary_reductions_data)
    THEN [outcome |-> "ok", rows |-> rows]
    ELSE LET reduction_data == salary_reductions_data[i]
         IN IF ~ImportReductionValid(reduction_data)
            THEN [outcome |-> "invalid", rows |-> rows]
            ELSE IF \E r \in rows : r.budget = budget_id /\ r.name = reduction_data.name
            THEN [outcome |-> "raised", rows |-> rows]
            ELSE ImportReductionsLoop(budget_id, salary_reductions_data, i + 1,
                    rows \cup {[budget |-> budget_id, name |-> reduction_data.name,
                                reduction_type |-> reduction_data.reduction_type,
                                value |-> ToDecimal(reduction_data.value),
                                order |-> reduction_data.order,
                                is_active |-> reduction_data.is_active]})

\* MonthlyActualBalanceSerializer.is_valid on the data of lines 272-277: month
\* and year within their validators; both amounts are passed explicitly and
\* may not be null
ImportBalanceValid(balance_data) ==
    /\ balance_data.month >= 1 /\ balance_data.month <= MAX_MONTH
    /\ balance_data.year >= MIN_YEAR /\ balance_data.year <= MAX_YEAR
    /\ balance_data.actual_income # None
    /\ balance_data.actual_expenses # None

\* the loop of lines 271-282 from index i on
RECURSIVE ImportBalancesLoop(_, _, _, _)
ImportBalancesLoop(budget_id, actual_balances_data, i, rows) ==
    IF i > Len(actual_balances_data)
    THEN [outcome |-> "ok", rows |-> rows]
    ELSE LET balance_data == actual_balances_data[i]
         IN IF ~ImportBalanceValid(balance_data)
            THEN [outcome |-> "invalid", rows |-> rows]
            ELSE IF \E a \in rows : /\ a.budget = budget_id
                                    /\ a.month = balance_data.month
                                    /\ a.year = balance_data.year
            THEN [outcome |-> "raised", rows |-> rows]
            ELSE ImportBalancesLoop(budget_id, actual_balances_data, i + 1,
                    rows \cup {[budget |-> budget_id, month |-> balance_data.month,
                                year |-> balance_data.year,
                                actual_income |-> ToDecimal(balance_data.actual_income),
                                actual_expenses |->
                                    ToDecimal(balance_data.actual_expenses)]})

\* import_budget on the store as it stands: the response status and the
\* tables it leaves.  A rejected record ends the handler with budget.delete()
\* and 400; an exception leaves the handler where it is raised and is turned
\* into a 500 by rest_framework_exception_handler, the requests not being
\* atomic.  The identifiers handed out are not reused.
ImportRun(name, timestamp, payload) ==
    LET budget_name == IF \E b \in budgets : b.name = name
                       THEN ImportName(name, timestamp) ELSE name
        before == [status |-> 400, budget_id |-> 0,
                   budgets |-> budgets, categories |-> categories,
                   entries |-> entries, tax_entries |-> tax_entries,
                   salary_reductions |-> salary_reductions,
                   actual_balances |-> actual_balances,
                   nextBudgetId |-> nextBudgetId, nextCategoryId |-> nextCategoryId]
    IN IF \E b \in budgets : b.name = budget_name
       THEN before
       ELSE LET budget == [id |-> nextBudgetId, name |-> budget_name]
                c == ImportCategoriesLoop(budget.id, payload.categories, 1,
                                          categories, nextCategoryId, {})
                e == ImportEntriesLoop(payload.entries, 1, entries, c.categories,
                                       c.mapping)
                t == ImportTaxLoop(budget.id, payload.tax_entries, 1, tax_entries)
                r == ImportReductionsLoop(budget.id, payload.salary_reductions, 1,
                                          salary_reductions)
                a == ImportBalancesLoop(budget.id, payload.actual_balances, 1,
                                        actual_balances)
                \* the loop the handler ends in: 6 when all five complete
                last == IF c.outcome # "ok" THEN 1
                        ELSE IF e.outcome # "ok" THEN 2
                        ELSE IF t.outcome # "ok" THEN 3
                        ELSE IF r.outcome # "ok" THEN 4
                        ELSE IF a.outcome # "ok" THEN 5
                        ELSE 6
                outcome == CASE last = 1 -> c.outcome [] last = 2 -> e.outcome
                             [] last = 3 -> t.outcome [] last = 4 -> r.outcome
                             [] last = 5 -> a.outcome [] OTHER -> "ok"
            IN IF outcome = "invalid"
               THEN [before EXCEPT !.nextBudgetId = nextBudgetId + 1,
                                   !.nextCategoryId = c.nextCategoryId]
               ELSE [status |-> IF outcome = "ok" THEN 201 ELSE 500,
                     budget_id |-> budget.id,
                     budgets |-> budgets \cup {budget},
                     categories |-> c.categories,
                     entries |-> IF last >= 2 THEN e.entries ELSE entries,
                     tax_entries |-> IF last >= 3 THEN t.rows ELSE tax_entries,
                     salary_reductions |->
                         IF last >= 4 THEN r.rows ELSE salary_reductions,
                     actual_balances |->
                         IF last >= 5 THEN a.rows ELSE actual_balances,
                     nextBudgetId |-> nextBudgetId + 1,
                     nextCategoryId |-> c.nextCategoryId]

\* payload categories: the identifiers are those of the exporting store
ImportCategoryInputs ==
    {<<>>,
     <<[id |-> 7, name |-> "Salary", category_type |-> "INCOME", order |-> 1,
        is_active |-> TRUE]>>,
     <<[id |-> 7, name |-> "Salary", category_type |-> "INCOME", order |-> 1,
        is_active |-> TRUE],
       [id |-> 8, name |-> "Fund", category_type |-> "SAVINGS", order |-> 2,
        is_active |-> TRUE]>>,
     <<[id |-> 7, name |-> "Fund", category_type |-> "None", order |-> 0,
        is_active |-> TRUE]>>,
     <<[id |-> 7, name |-> "Fund", category_type |-> "SAVINGS", order |-> 2,
        is_active |-> TRUE],
       [id |-> 8, name |-> "Fund", category_type |-> "INCOME", order |-> 2,
        is_active |-> TRUE]>>}

\* ... a category without an id, and an inactive one beside an active one
MoreImportCategoryInputs ==
    {<<[id |-> 0, name |-> "Salary", category_type |-> "INCOME", order |-> 1,
        is_active |-> TRUE]>>,
     <<[id |-> 7, name |-> "Salary", category_type |-> "INCOME", order |-> 1,
        is_active |-> FALSE],
       [id |-> 8, name |-> "Fund", category_type |-> "SAVINGS", order |-> 2,
        is_active |-> TRUE]>>}

\* a payload entry; the amounts are JSON strings as the API renders them
ImportEntry(category, month, year, planned_amount, actual_amount) ==
    [category |-> category, month |-> month, year |-> year,
     planned_amount |-> planned_amount, actual_amount |-> actual_amount,
     notes |-> "", status |-> "WARNING"]

ImportEntryInputs ==
    {<<>>,
     <<ImportEntry(7, 1, 2026, Str(10 * AmountUnit), None)>>,
     <<ImportEntry(7, 1, 2026, Str(10 * AmountUnit), Str(0))>>,
     <<ImportEntry(8, MAX_MONTH, 2025, Str(10 * AmountUnit), Str(9 * AmountUnit))>>,
     <<ImportEntry(9, 1, 2026, Str(10 * AmountUnit), None)>>,
     <<ImportEntry(7, MAX_MONTH + 1, 2026, Str(10 * AmountUnit), None)>>,
     <<ImportEntry(7, 1, 2026, None, Str(9 * AmountUnit))>>,
     <<ImportEntry(7, 1, 2026, Str(10 * AmountUnit), Str(9 * AmountUnit)),
       ImportEntry(7, 1, 2026, Str(10 * AmountUnit), None)>>}

\* ... entries with notes, for both categories of a payload
MoreImportEntryInputs ==
    {<<[ImportEntry(7, 1, 2026, Str(10 * AmountUnit), Str(9 * AmountUnit))
          EXCEPT !.notes = "imported"],
       [ImportEntry(8, MAX_MONTH, 2025, Str(10 * AmountUnit), None)
          EXCEPT !.notes = "imported"]>>}

ImportTaxInputs ==
    {<<>>,
     <<[name |-> "Income tax", percentage |-> Str(1050), order |-> 1,
        is_active |-> TRUE]>>,
     <<[name |-> "Income tax", percentage |-> Str(150 * 100), order |-> 1,
        is_active |-> TRUE]>>}

ImportReductionInputs ==
    {<<>>,
     <<[name |-> "AHV", reduction_type |-> "PERCENTAGE", value |-> Str(530),
        order |-> 1, is_active |-> TRUE]>>,
     <<[name |-> "AHV", reduction_type |-> "None", value |-> Str(530),
        order |-> 1, is_active |-> TRUE]>>}

ImportBalanceInputs ==
    {<<>>,
     <<[month |-> 1, year |-> 2026, actual_income |-> Str(10 * AmountUnit),
        actual_expenses |-> Str(9 * AmountUnit)]>>,
     <<[month |-> 1, year |-> 2026, actual_income |-> None,
        actual_expenses |-> Str(9 * AmountUnit)]>>}

Payload(categories_data, entries_data, tax_entries_data, salary_reductions_data, actual_balances_data) ==
    [categories |-> categories_data, entries |-> entries_data,
     tax_entries |-> tax_entries_data,
     salary_reductions |-> salary_reductions_data,
     actual_balances |-> actual_balances_data]

\* request bodies with categories and entries
ImportPayloads ==
    {Payload(c, e, <<>>, <<>>, <<>>) :
        c \in ImportCategoryInputs, e \in ImportEntryInputs}

\* ... and those with the other categories, or with tax entries, salary
\* reductions and balances
MoreImportPayloads ==
    {Payload(c, e, <<>>, <<>>, <<>>) :
        c \in MoreImportCategoryInputs, e \in ImportEntryInputs}
    \cup {Payload(c, e, <<>>, <<>>, <<>>) :
            c \in ImportCategoryInputs \cup MoreImportCategoryInputs,
            e \in MoreImportEntryInputs}
    \cup {Payload(<<>>, <<>>, t, r, a) :
            t \in ImportTaxInputs, r \in ImportReductionInputs,
            a \in ImportBalanceInputs}

PayloadRows(payload) ==
    Len(payload.categories) + Len(payload.entries) + Len(payload.tax_entries)
        + Len(payload.salary_reductions) + Len(payload.actual_balances)

ImportBudget(name, timestamp, payload) ==
    LET run == ImportRun(name, timestamp, payload)
    IN /\ RowsInserted + 1 + PayloadRows(payload) <= MaxRows
       /\ budgets' = run.budgets
       /\ categories' = run.categories
       /\ entries' = run.entries
       /\ tax_entries' = run.tax_entries
       /\ salary_reductions' = run.salary_reductions
       /\ actual_balances' = run.actual_balances
       /\ nextBudgetId' = run.nextBudgetId
       /\ nextCategoryId' = run.nextCategoryId
       /\ UNCHANGED <<call, tplvars>>

(***************************************************************************)
(* Aggregation: Budget.get_monthly_summary / get_yearly_summary and        *)
(* BudgetCategory.get_monthly_total / get_yearly_total                     *)
(***************************************************************************)
\* BudgetEntry.objects.filter(category__budget=self, month=month, year=year)
MonthlyEntries_AnyBudget(budget_id, month, year) ==
    {e \in entries : e.month = month /\ e.year = year}

MonthlyEntries(budget_id, month, year) ==
    {e \in entries : /\ CategoryById(e.category).budget = budget_id
                     /\ e.month = month
                     /\ e.year = year}

\* Decimal(entry.actual_amount or entry.planned_amount)
EntryAmount(entry) == ToDecimal(Or(entry.actual_amount, Dec(entry.planned_amount)))

\* entry.category.category_type == 'INCOME'
CountsAsIncome_OrSavings(entry) ==
    CategoryById(entry.category).category_type \in {"INCOME", "SAVINGS"}

CountsAsIncome(entry) == CategoryById(entry.category).category_type = "INCOME"

\* the loop of lines 30-35 over the rows not yet visited
RECURSIVE MonthlyLoop(_, _, _)
MonthlyLoop(rest, total_income, total_expenses) ==
    IF rest = {}
    THEN [total_income |-> total_income, total_expenses |-> total_expenses]
    ELSE LET entry == CHOOSE e \in rest : TRUE
             amount == EntryAmount(entry)
         IN IF CountsAsIncome(entry)
            THEN MonthlyLoop(rest \ {entry}, total_income + amount, total_expenses)
            ELSE MonthlyLoop(rest \ {entry}, total_income, total_expenses + amount)

get_monthly_summary_ActiveOnly(budget_id, month, year) ==
    LET rows == {e \in MonthlyEntries(budget_id, month, year) :
                    CategoryById(e.category).is_active}
        totals == MonthlyLoop(rows, 0, 0)
    IN [month |-> month, year |-> year,
        total_income |-> totals.total_income,
        total_expenses |-> totals.total_expenses,
        balance |-> totals.total_income - totals.total_expenses,
        entries |-> rows]

get_monthly_summary(budget_id, month, year) ==
    LET rows == MonthlyEntries(budget_id, month, year)
        totals == MonthlyLoop(rows, 0, 0)
    IN [month |-> month, year |-> year,
        total_income |-> totals.total_income,
        total_expenses |-> totals.total_expenses,
        balance |-> totals.total_income - totals.total_expenses,
        entries |-> rows]

\* range(1, 13)
YearlyRangeStop_OffByOne == MAX_MONTH

YearlyRangeStop == 13

\* the loop of lines 52-56 from `month` on
RECURSIVE YearlyLoop(_, _, _, _, _, _)
YearlyLoop(budget_id, year, month, monthly_summaries, total_income, total_expenses) ==
    IF month >= YearlyRangeStop
    THEN [year |-> year,
          total_income |-> total_income,
          total_expenses |-> total_expenses,
          balance |-> total_income - total_expenses,
          monthly_summaries |-> monthly_summaries]
    ELSE LET summary == get_monthly_summary(budget_id, month, year)
         IN YearlyLoop(budget_id, year, month + 1,
                       Append(monthly_summaries, summary),
                       total_income + summary.total_income,
                       total_expenses + summary.total_expenses)

get_yearly_summary(budget_id, year) == YearlyLoop(budget_id, year, 1, <<>>, 0, 0)

\* Decimal(e.actual_amount) if e.actual_amount else Decimal('0')
ActualOrZero_OrPlanned(e) ==
    IF ~Not(e.actual_amount) THEN ToDecimal(e.actual_amount) ELSE e.planned_amount

ActualOrZero(e) == IF ~Not(e.actual_amount) THEN ToDecimal(e.actual_amount) ELSE 0

\* sum(Decimal(e.planned_amount) for e in entries)
RECURSIVE SumPlanned(_)
SumPlanned(rows) ==
    IF rows = {} THEN 0
    ELSE LET e == CHOOSE x \in rows : TRUE
         IN e.planned_amount + SumPlanned(rows \ {e})

\* sum(... for e in entries) of lines 130-133 and 146-149
RECURSIVE SumActual(_)
SumActual(rows) ==
    IF rows = {} THEN 0
    ELSE LET e == CHOOSE x \in rows : TRUE
         IN ActualOrZero(e) + SumActual(rows \ {e})

get_monthly_total(category_id, month, year) ==
    LET rows == {e \in entries : e.category = category_id /\ e.month = month
                                 /\ e.year = year}
    IN [month |-> month, year |-> year,
        total_planned |-> SumPlanned(rows),
        total_actual |-> SumActual(rows)]

get_yearly_total(category_id, year) ==
    LET rows == {e \in entries : e.category = category_id /\ e.year = year}
    IN [year |-> year,
        total_planned |-> SumPlanned(rows),
        total_actual |-> SumActual(rows)]

(***************************************************************************)
(* Templates: BudgetTemplate.apply_to_budget and the template view set     *)
(***************************************************************************)
\* cat_data.get(key, default) on a category definition of a template, a JSON
\* object that holds some of the keys
Get(cat_data, key, default) ==
    IF key \in DOMAIN cat_data THEN cat_data[key] ELSE default

\* the row BudgetCategory.objects.get_or_create inserts: `defaults` of lines
\* 367-374 and the model's default for is_active
TemplateCategory(id, budget_id, cat_data) ==
    [id |-> id, budget |-> budget_id, name |-> cat_data.name,
     category_type |-> cat_data.category_type,
     order |-> Get(cat_data, "order", 0),
     is_active |-> TRUE,
     input_mode |-> Get(cat_data, "input_mode", "MONTHLY"),
     custom_months |-> Get(cat_data, "custom_months", None),
     custom_start_month |-> Get(cat_data, "custom_start_month", None),
     yearly_amount |-> None]

\* get_or_create(budget=budget, name=cat_data['name'], defaults=...)
get_or_create_UpdateOrCreate(budget_id, cat_data, cats, next_id) ==
    LET found == {c \in cats : c.budget = budget_id /\ c.name = cat_data.name}
    IN IF found # {}
       THEN LET category == CHOOSE c \in found : TRUE
                updated == TemplateCategory(category.id, budget_id, cat_data)
            IN [category |-> updated, created |-> FALSE,
                categories |-> (cats \ {category}) \cup {updated}]
       ELSE LET category == TemplateCategory(next_id, budget_id, cat_data)
            IN [category |-> category, created |-> TRUE,
                categories |-> cats \cup {category}]

get_or_create(budget_id, cat_data, cats, next_id) ==
    LET found == {c \in cats : c.budget = budget_id /\ c.name = cat_data.name}
    IN IF found # {}
       THEN [category |-> CHOOSE c \in found : TRUE, created |-> FALSE,
             categories |-> cats]
       ELSE LET category == TemplateCategory(next_id, budget_id, cat_data)
            IN [category |-> category, created |-> TRUE,
                categories |-> cats \cup {category}]

\* the loop of lines 364-378 from index i on
RECURSIVE ApplyLoop(_, _, _, _, _, _)
ApplyLoop(budget_id, template_categories, i, cats, next_id, created_categories) ==
    IF i > Len(template_categories)
    THEN [categories |-> cats, nextCategoryId |-> next_id,
          created_categories |-> created_categories]
    ELSE LET g == get_or_create(budget_id, template_categories[i], cats, next_id)
         IN ApplyLoop(budget_id, template_categories, i + 1, g.categories,
                      IF g.created THEN next_id + 1 ELSE next_id,
                      IF g.created THEN Append(created_categories, g.category)
                      ELSE created_categories)

apply_to_budget(template, budget_id) ==
    ApplyLoop(budget_id, template.categories, 1, categories, nextCategoryId, <<>>)

TemplateNames == {"Standard", "Yearly"}

\* the name the create_from_budget requests ask for
RequestNames == {"Standard"}

\* category lists of templates a client posts: the two definitions of the
\* test fixture, and one with every key
TemplateCategoryInputs ==
    {<<[name |-> "Salary", category_type |-> "INCOME", order |-> 1],
       [name |-> "Rent", category_type |-> "FIXED_EXPENSE", order |-> 2]>>,
     <<[name |-> "Salary", category_type |-> "SAVINGS", order |-> 5,
        input_mode |-> "YEARLY", custom_months |-> Num(3),
        custom_start_month |-> Num(2)]>>}

\* POST /templates/: BudgetTemplateSerializer validates the unique name
CreateTemplate(name, template_categories) ==
    /\ RowsInserted < MaxRows
    /\ IF \E t \in templates : t.name = name
       THEN UNCHANGED <<templates, nextTemplateId>>
       ELSE /\ templates' = templates \cup
                   {[id |-> nextTemplateId, name |-> name,
                     categories |-> template_categories]}
            /\ nextTemplateId' = nextTemplateId + 1
    /\ UNCHANGED <<dbvars, ownedvars, call, requests>>

\* DELETE /templates/{id}/
DestroyTemplate(template) ==
    /\ template \in templates
    /\ templates' = templates \ {template}
    /\ UNCHANGED <<dbvars, ownedvars, call, nextTemplateId, requests>>

\* POST /templates/{id}/apply with the budget_id of an existing budget
ApplyTemplate(template, budget_id) ==
    /\ template \in templates
    /\ \E b \in budgets : b.id = budget_id
    /\ RowsInserted + Len(template.categories) <= MaxRows
    /\ LET applied == apply_to_budget(template, budget_id)
       IN /\ categories' = applied.categories
          /\ nextCategoryId' = applied.nextCategoryId
    /\ UNCHANGED <<budgets, entries, nextBudgetId, ownedvars, call, tplvars>>

(***************************************************************************)
(* POST /templates/create_from_budget, in two steps: the reads up to the    *)
(* look-up of line 504, then the write.  Requests run concurrently; the    *)
(* database serialises the single statements.                              *)
(***************************************************************************)
\* the category names in use, in the order of the database's string
\* comparison
NameOrder == <<"Fund", "Misc", "Rent", "Salary">>

NameRank(name) == CHOOSE i \in 1..Len(NameOrder) : NameOrder[i] = name

\* order_by('order', 'name')
Before(c, d) ==
    \/ c.order < d.order
    \/ c.order = d.order /\ NameRank(c.name) < NameRank(d.name)

RECURSIVE OrderBy(_)
OrderBy(rows) ==
    IF rows = {} THEN <<>>
    ELSE LET first == CHOOSE c \in rows : \A d \in rows \ {c} : Before(c, d)
         IN <<first>> \o OrderBy(rows \ {first})

\* the dictionary of lines 493-501 for one category
CategoryData(category) ==
    [name |-> category.name,
     category_type |-> category.category_type,
     order |-> category.order,
     input_mode |-> category.input_mode,
     custom_months |-> category.custom_months,
     custom_start_month |-> category.custom_start_month]

\* budget.categories.filter(is_active=True).order_by('order', 'name')
ActiveCategories_All(budget_id) == OrderBy(CategoriesOf(budget_id))

ActiveCategories(budget_id) ==
    OrderBy({c \in CategoriesOf(budget_id) : c.is_active})

\* category_data of lines 490-501
BuildCategoryData(budget_id) ==
    LET rows == ActiveCategories(budget_id)
    IN [i \in 1..Len(rows) |-> CategoryData(rows[i])]

\* lines 506-518: what the handler does once it has looked the name up
AfterLookup_IgnoreOverwrite(existing_template, overwrite) ==
    IF existing_template # {} THEN "update" ELSE "create"

AfterLookup(existing_template, overwrite) ==
    IF existing_template # {}
    THEN (IF overwrite THEN "update" ELSE "conflict")
    ELSE "create"

\* a request body: budget_id 0 stands for a missing budget_id
CfbCheck(budget_id, template_name, overwrite) ==
    /\ RowsInserted < MaxRows
    /\ LET existing_template == {t \in templates : t.name = template_name}
           todo == AfterLookup(existing_template, overwrite)
           \* `path` is the branch of lines 506-521 the handler is in
           request == [budget_id |-> budget_id, name |-> template_name,
                       overwrite |-> overwrite,
                       path |-> IF \E b \in budgets : b.id = budget_id
                                THEN todo ELSE "rejected"]
       IN IF budget_id = 0
          THEN requests' = Append(requests,
                   request @@ [pc |-> "done", status |-> 400, error |-> "required",
                               category_data |-> <<>>, existing |-> 0])
          ELSE IF ~\E b \in budgets : b.id = budget_id
          THEN requests' = Append(requests,
                   request @@ [pc |-> "done", status |-> 404, error |-> "not found",
                               category_data |-> <<>>, existing |-> 0])
          ELSE IF todo = "conflict"
          THEN requests' = Append(requests,
                   request @@ [pc |-> "done", status |-> 409,
                               error |-> "DUPLICATE_NAME",
                               category_data |-> BuildCategoryData(budget_id),
                               existing |-> 0])
          ELSE requests' = Append(requests,
                   request @@ [pc |-> todo, status |-> 0, error |-> "",
                               category_data |-> BuildCategoryData(budget_id),
                               existing |->
                                   IF todo = "update"
                                   THEN (CHOOSE t \in existing_template : TRUE).id
                                   ELSE 0])
    /\ UNCHANGED <<dbvars, ownedvars, call, templates, nextTemplateId>>

\* BudgetTemplate.objects.create(name=..., categories=...): the unique
\* constraint on the name makes the INSERT raise IntegrityError
objects_create_NoConstraint(name, category_data) ==
    [raised |-> FALSE,
     templates |-> templates \cup {[id |-> nextTemplateId, name |-> name,
                                    categories |-> category_data]},
     nextTemplateId |-> nextTemplateId + 1]

objects_create(name, category_data) ==
    IF \E t \in templates : t.name = name
    THEN [raised |-> TRUE, templates |-> templates,
          nextTemplateId |-> nextTemplateId]
    ELSE [raised |-> FALSE,
          templates |-> templates \cup {[id |-> nextTemplateId, name |-> name,
                                         categories |-> category_data]},
          nextTemplateId |-> nextTemplateId + 1]

\* existing_template.save() of the instance read at line 504: an UPDATE of
\* the row with its id, or an INSERT when the row is gone
save_existing_KeepCategories(id, name, category_data) ==
    [raised |-> FALSE, templates |-> templates]

save_existing(id, name, category_data) ==
    LET row == [id |-> id, name |-> name, categories |-> category_data]
    IN IF \E t \in templates : t.id = id
       THEN [raised |-> FALSE,
             templates |-> {t \in templates : t.id # id} \cup {row}]
       ELSE IF \E t \in templates : t.name = name
       THEN [raised |-> TRUE, templates |-> templates]
       ELSE [raised |-> FALSE, templates |-> templates \cup {row}]

\* the write of request i: lines 508-512, or lines 521-533
CfbWrite(i) ==
    /\ i \in 1..Len(requests)
    /\ requests[i].pc \in {"create", "update"}
    /\ LET request == requests[i]
           done(status, error) ==
               [requests EXCEPT ![i] =
                   [request EXCEPT !.pc = "done", !.status = status,
                                   !.error = error]]
       IN IF request.pc = "create"
          THEN LET created == objects_create(request.name, request.category_data)
               IN /\ templates' = created.templates
                  /\ nextTemplateId' = created.nextTemplateId
                  /\ requests' = IF created.raised
                                 THEN done(409, "DUPLICATE_NAME")
                                 ELSE done(201, "")
          ELSE LET saved == save_existing(request.existing, request.name,
                                          request.category_data)
               IN /\ templates' = saved.templates
                  /\ UNCHANGED nextTemplateId
                  /\ requests' = IF saved.raised
                                 THEN done(500, "IntegrityError")
                                 ELSE done(200, "")
    /\ UNCHANGED <<dbvars, ownedvars, call>>

\* categories a client adds in the template histories: one that shares its
\* order with "Salary", and an inactive one
MoreCategoryInputs ==
    {[name |-> "Rent", category_type |-> "FIXED_EXPENSE", order |-> 1,
      is_active |-> TRUE],
     [name |-> "Misc", category_type |-> "VARIABLE_EXPENSE", order |-> 0,
      is_active |-> FALSE]}

(***************************************************************************)
(* Responses: a status and the keys of the JSON body                       *)
(***************************************************************************)
Response(status, keys) == [status |-> status, keys |-> keys]

\* the handler returns None
NoResponse == Response(0, {})

\* exceptions a view can raise
Exceptions ==
    {"Http404", "IntegrityError", "BrokenPipeError", "ValueError",
     "AttributeError", "TypeError"}

\* rest_framework.views.exception_handler: Http404 (and the other API
\* exceptions) become a body with `detail`; any other exception is not
\* handled
drf_exception_handler(exc) ==
    IF exc = "Http404" THEN Response(404, {"detail"}) ELSE NoResponse

rest_framework_exception_handler(exc) ==
    LET response == drf_exception_handler(exc)
    IN IF response # NoResponse THEN response
       ELSE IF exc = "BrokenPipeError" THEN Response(200, {"error"})
       ELSE Response(500, {"error", "error_type", "detail"})

\* self.get_object() of a detail route: the exception it raises, if any
get_object(rows, pk) ==
    IF \E x \in rows : x.id = pk THEN "found" ELSE "Http404"

\* the name of a request body that has none
NoName == [base |-> "None", stamp |-> 0]

\* BudgetViewSet.create: the body of a rejected request is serializer.errors,
\* keyed by field; an exception is answered by the handler's own except
create(name) ==
    IF name = NoName \/ \E b \in budgets : b.name = name
    THEN Response(400, {"name"})
    ELSE Response(201, {"id", "name", "currency", "created_at", "updated_at"})

\* BudgetViewSet.add_category
add_category(budget_id, data) ==
    IF get_object(budgets, budget_id) = "Http404"
    THEN rest_framework_exception_handler("Http404")
    ELSE IF ~CategoryValid(data)
    THEN Response(400, {f \in {"name", "category_type"} : data[f] = "None"})
    ELSE IF \E c \in CategoriesOf(budget_id) : c.name = data.name
    THEN rest_framework_exception_handler("IntegrityError")
    ELSE Response(201, {"id", "budget", "name", "category_type",
                        "category_type_display", "order", "is_active"})

\* BudgetEntryViewSet.actual on an entry that exists
ActualResponse(actual_amount) ==
    IF actual_amount = None
    THEN Response(400, {"error"})
    ELSE Response(200, {"id", "category", "category_name", "category_type",
                        "month", "year", "planned_amount", "actual_amount",
                        "notes", "status", "status_display"})

\* bodies of add_category that lack a field
InvalidCategoryInputs ==
    {[name |-> "None", category_type |-> "INCOME", order |-> 1, is_active |-> TRUE],
     [name |-> "Misc", category_type |-> "None", order |-> 1, is_active |-> TRUE]}

\* what the API answers, in the store as it is, to the requests of the model
Responses ==
    {create(name) : name \in BudgetNames \cup {NoName}}
      \cup {add_category(budget_id, data) :
              budget_id \in 1..nextBudgetId,
              data \in CategoryInputs \cup InvalidCategoryInputs}
      \cup {ActualResponse(actual_amount) : actual_amount \in RawActualInputs}
      \cup {rest_framework_exception_handler(exc) : exc \in Exceptions}

(***************************************************************************)
(* Client disconnects: the WSGI wrapper BrokenPipeHandler of wsgi.py and   *)
(* BrokenPipeHandlerMiddleware.  A request is a script of what the server  *)
(* side raises at each stage; `call` holds the script and the position.    *)
(***************************************************************************)
Exc(type, errno, broken_msg) ==
    [type |-> type, errno |-> errno, broken_msg |-> broken_msg]

NoExc == Exc("none", 0, FALSE)

\* errno.EPIPE
EPIPE == 32

\* what a stage can raise: a BrokenPipeError, an OSError with errno 32, an
\* OSError whose message holds 'Broken pipe', another OSError, or an
\* exception that is no OSError; broken_msg is 'Broken pipe' in str(e)
Raisable ==
    {Exc("BrokenPipeError", EPIPE, TRUE), Exc("OSError", EPIPE, FALSE),
     Exc("OSError", 5, TRUE), Exc("OSError", 13, FALSE),
     Exc("ValueError", 0, FALSE)}

\* except (BrokenPipeError, OSError)
IsOSError(e) == e.type \in {"BrokenPipeError", "OSError"}

\* errno == 32 or 'Broken pipe' in str(e) or 'BrokenPipeError' in the type name
IsBrokenPipe_ErrnoOnly(e) == e.errno = EPIPE

IsBrokenPipe(e) ==
    \/ e.errno = EPIPE
    \/ e.broken_msg
    \/ e.type = "BrokenPipeError"

\* the scripts of a request through the WSGI wrapper: what the application
\* raises before it starts the response, what start_response raises, what
\* the response iterator raises on next() and on close(), and whether the
\* iterator has a close(); `stage` is the method that ran last
WsgiCalls ==
    [fn : {"wsgi"}, pc : {"start"},
     application : Raisable \cup {NoExc}, start_response : Raisable \cup {NoExc},
     next : Raisable \cup {NoExc}, close : Raisable \cup {NoExc},
     has_close : BOOLEAN, response_sent : {FALSE}, exc : {NoExc},
     stage : {"none"}]

\* the scripts of a request through the middleware: what get_response raises
MiddlewareCalls ==
    [fn : {"middleware"}, pc : {"start"}, get_response : Raisable \cup {NoExc},
     exc : {NoExc}, stage : {"none"}]

\* wrapped_start_response: the exception it ends with, and response_sent
wrapped_start_response(c) ==
    IF c.start_response = NoExc
    THEN [exc |-> NoExc, response_sent |-> TRUE]
    ELSE IF IsOSError(c.start_response) /\ IsBrokenPipe(c.start_response)
    THEN [exc |-> c.start_response, response_sent |-> TRUE]
    ELSE [exc |-> c.start_response, response_sent |-> c.response_sent]

\* self.application(environ, wrapped_start_response): the application
\* raises, or starts the response and returns its iterator
Application(c) ==
    IF c.application # NoExc
    THEN [exc |-> c.application, response_sent |-> c.response_sent]
    ELSE wrapped_start_response(c)

\* BrokenPipeHandler.__call__
WsgiCall ==
    /\ call.fn = "wsgi" /\ call.pc = "start"
    /\ LET r == Application(call)
       IN call' =
            IF r.exc = NoExc
            THEN [call EXCEPT !.stage = "call", !.pc = "iterating", !.response_sent = r.response_sent]
            ELSE IF IsOSError(r.exc) /\ IsBrokenPipe(r.exc)
            THEN \* if not response_sent[0]: wrapped_start_response('200 OK', [])
                 \* under a bare except; return []
                 [call EXCEPT !.stage = "call", !.pc = "returned",
                              !.response_sent =
                                  \/ r.response_sent
                                  \/ wrapped_start_response(call).response_sent]
            ELSE [call EXCEPT !.stage = "call", !.pc = "raised", !.exc = r.exc,
                              !.response_sent = r.response_sent]
    /\ UNCHANGED <<dbvars, ownedvars, tplvars>>

\* SafeIterator.__next__: the first call yields the body or raises, a later
\* one ends the iteration
WsgiNext ==
    /\ call.fn = "wsgi" /\ call.pc \in {"iterating", "yielded"}
    /\ call' =
         IF call.pc = "yielded" THEN [call EXCEPT !.stage = "next", !.pc = "exhausted"]
         ELSE IF call.next = NoExc THEN [call EXCEPT !.stage = "next", !.pc = "yielded"]
         ELSE IF IsOSError(call.next) /\ IsBrokenPipe(call.next)
         THEN [call EXCEPT !.stage = "next", !.pc = "exhausted"]
         ELSE [call EXCEPT !.stage = "next", !.pc = "raised", !.exc = call.next]
    /\ UNCHANGED <<dbvars, ownedvars, tplvars>>

\* SafeIterator.close, which the server calls when it is done with the
\* response, whether the iteration has ended or not
WsgiClose ==
    /\ call.fn = "wsgi" /\ call.pc \in {"iterating", "yielded", "exhausted"}
    /\ call' =
         IF ~call.has_close \/ call.close = NoExc THEN [call EXCEPT !.stage = "close", !.pc = "closed"]
         ELSE IF IsOSError(call.close) /\ IsBrokenPipe(call.close)
         THEN [call EXCEPT !.stage = "close", !.pc = "closed"]
         ELSE [call EXCEPT !.stage = "close", !.pc = "raised", !.exc = call.close]
    /\ UNCHANGED <<dbvars, ownedvars, tplvars>>

\* BrokenPipeHandlerMiddleware.__call__
MiddlewareCall ==
    /\ call.fn = "middleware" /\ call.pc = "start"
    /\ call' =
         IF call.get_response = NoExc THEN [call EXCEPT !.stage = "call", !.pc = "returned"]
         ELSE IF IsOSError(call.get_response) /\ IsBrokenPipe(call.get_response)
         THEN [call EXCEPT !.stage = "call", !.pc = "returned"]
         ELSE [call EXCEPT !.stage = "call", !.pc = "raised", !.exc = call.get_response]
    /\ UNCHANGED <<dbvars, ownedvars, tplvars>>

InitWsgi ==
    /\ EmptyDb
    /\ call \in WsgiCalls \cup MiddlewareCalls

NextWsgi ==
    \/ WsgiCall
    \/ WsgiNext
    \/ WsgiClose
    \/ MiddlewareCall

SpecWsgi == InitWsgi /\ [][NextWsgi]_vars

(***************************************************************************)
(* The summary of a budget, the data a client exports and re-imports       *)
(***************************************************************************)
\* DecimalField.to_representation: decimals are rendered as strings
to_representation(x) == IF x.kind = "None" THEN None ELSE Str(x.v)

\* BudgetCategorySerializer on a row: the fields of its Meta
CategorySerializerData(category) ==
    [id |-> category.id, name |-> category.name,
     category_type |-> category.category_type, order |-> category.order,
     is_active |-> category.is_active]

\* BudgetEntrySerializer on a row
EntrySerializerData(entry) ==
    [category |-> entry.category, month |-> entry.month, year |-> entry.year,
     planned_amount |-> Str(entry.planned_amount),
     actual_amount |-> to_representation(entry.actual_amount),
     notes |-> entry.notes, status |-> entry.status]

\* BudgetEntry.Meta.ordering: year, month, category__order (then as stored)
EntryBefore(e, f) ==
    LET key(x) == <<x.year, x.month,
                    (CHOOSE c \in categories : c.id = x.category).order,
                    x.category>>
        RECURSIVE Less(_, _, _)
        Less(k, l, i) == IF i > 4 THEN FALSE
                         ELSE k[i] < l[i] \/ (k[i] = l[i] /\ Less(k, l, i + 1))
    IN Less(key(e), key(f), 1)

RECURSIVE EntriesInOrder(_)
EntriesInOrder(rows) ==
    IF rows = {} THEN <<>>
    ELSE LET first == CHOOSE e \in rows : \A f \in rows \ {e} : EntryBefore(e, f)
         IN <<first>> \o EntriesInOrder(rows \ {first})

\* BudgetViewSet.summary: the active categories and all entries of the
\* budget, through BudgetSummarySerializer (budget, categories, entries)
Summary(budget_id) ==
    LET cats == OrderBy({c \in CategoriesOf(budget_id) : c.is_active})
        ents == EntriesInOrder({e \in entries :
                    \E c \in CategoriesOf(budget_id) : e.category = c.id})
    IN Payload([i \in 1..Len(cats) |-> CategorySerializerData(cats[i])],
               [i \in 1..Len(ents) |-> EntrySerializerData(ents[i])],
               <<>>, <<>>, <<>>)

(***************************************************************************)
(* GET /budgets/{id}/export: utils.export_budget_to_excel                  *)
(***************************************************************************)
\* category_types, in the order of the dictionary
ExportTypeOrder == <<"INCOME", "FIXED_EXPENSE", "VARIABLE_EXPENSE", "SAVINGS">>

\* order_by('order'), rows of equal order as stored
RECURSIVE OrderByOrder(_)
OrderByOrder(rows) ==
    IF rows = {} THEN <<>>
    ELSE LET first == CHOOSE c \in rows : \A d \in rows \ {c} :
                          c.order < d.order \/ (c.order = d.order /\ c.id < d.id)
         IN <<first>> \o OrderByOrder(rows \ {first})

\* the cell of a month in the row of a category: its value and its fill
ExportCell(category, month, year) ==
    LET category_entries == {e \in entries : /\ e.category = category.id
                                             /\ e.year = year /\ e.month = month}
    IN IF category_entries = {}
       THEN [value |-> 0, fill |-> "none"]
       ELSE LET entry == CHOOSE e \in category_entries : TRUE
            IN [value |-> EntryAmount(entry),
                fill |-> IF Not(entry.actual_amount) THEN "none" ELSE entry.status]

\* yearly_total of a row, from `month` on
RECURSIVE ExportTotal(_, _)
ExportTotal(cells, month) ==
    IF month > Len(cells) THEN 0
    ELSE cells[month].value + ExportTotal(cells, month + 1)

\* the data row of a category
ExportRow(category, year) ==
    LET cells == [month \in 1..MAX_MONTH |-> ExportCell(category, month, year)]
    IN [name |-> category.name, category_type |-> category.category_type,
        cells |-> cells, total |-> ExportTotal(cells, 1)]

\* the data rows of the types from ExportTypeOrder[i] on
RECURSIVE ExportRows(_, _, _)
ExportRows(categories_, year, i) ==
    IF i > Len(ExportTypeOrder) THEN <<>>
    ELSE LET type_categories ==
                 SelectSeq(categories_, LAMBDA c : c.category_type = ExportTypeOrder[i])
         IN [k \in 1..Len(type_categories) |-> ExportRow(type_categories[k], year)]
              \o ExportRows(categories_, year, i + 1)

\* the balance cells of the summary row
ExportBalances(budget_id, year) ==
    [month \in 1..MAX_MONTH |-> get_monthly_summary(budget_id, month, year).balance]

\* export_budget_to_excel(budget): the exception it ends with, and the
\* sheet as far as it was written.  The second statement reads budget.year,
\* an attribute a Budget row does not have; the yearly balance is asked of
\* get_yearly_summary() without its argument `year`.
export_budget_to_excel(budget) ==
    IF "year" \notin DOMAIN budget
    THEN [raised |-> "AttributeError", rows |-> <<>>, balances |-> <<>>]
    ELSE LET categories_ ==
                 OrderByOrder({c \in CategoriesOf(budget.id) : c.is_active})
         IN [raised |-> "TypeError",
             rows |-> ExportRows(categories_, budget.year, 1),
             balances |-> ExportBalances(budget.id, budget.year)]

\* BudgetViewSet.export: the response to GET /budgets/{id}/export
export(budget_id) ==
    IF get_object(budgets, budget_id) = "Http404"
    THEN rest_framework_exception_handler("Http404")
    ELSE LET sheet == export_budget_to_excel(BudgetById(budget_id))
         IN IF sheet.raised # "none"
            THEN rest_framework_exception_handler(sheet.raised)
            ELSE Response(200, {"xlsx"})

Init ==
    /\ EmptyDb
    /\ call = NoCall

Next ==
    \/ \E name \in BudgetNames : CreateBudget(name)
    \/ \E b \in budgets : DestroyBudget(b.id)
    \/ \E b \in budgets, data \in CategoryInputs : AddCategory(b.id, data)
    \/ \E c \in categories, month \in MonthInputs \cup InvalidMonthInputs,
          year \in YearInputs, planned \in PlannedInputs, actual \in ActualInputs,
          notes \in NotesInputs :
            CreateEntry(c.id, month, year, planned, actual, notes)
    \/ \E e \in entries, c \in categories, month \in MonthInputs, year \in YearInputs :
            UpdateEntry(e, c.id, month, year, e.planned_amount, e.actual_amount,
                        e.notes)
    \/ \E e \in entries, planned \in PlannedInputs :
            PartialUpdateEntry(e, "planned_amount", Dec(planned))
    \/ \E e \in entries, actual \in ActualInputs :
            PartialUpdateEntry(e, "actual_amount", actual)
    \/ \E e \in entries, raw \in RawActualInputs : ActualEntry(e, raw)
    \/ \E e \in entries : DestroyEntry(e)
    \/ \E name \in BudgetNames, timestamp \in Timestamps, payload \in ImportPayloads :
            ImportBudget(name, timestamp, payload)

Spec == Init /\ [][Next]_vars

(***************************************************************************)
(* The import on its own: budgets are created, imported with every kind of *)
(* payload, and deleted                                                    *)
(***************************************************************************)
NextImport ==
    \/ \E name \in BudgetNames : CreateBudget(name)
    \/ \E b \in budgets : DestroyBudget(b.id)
    \/ \E name \in BudgetNames, timestamp \in Timestamps,
          payload \in ImportPayloads \cup MoreImportPayloads :
            ImportBudget(name, timestamp, payload)

SpecImport == Init /\ [][NextImport]_vars

(***************************************************************************)
(* The templates on their own: budgets and categories are created, and     *)
(* templates are posted, applied, captured from budgets and deleted        *)
(***************************************************************************)
NextTemplates ==
    \/ \E name \in {Name("Home")} : CreateBudget(name)
    \/ \E b \in budgets,
          data \in {d \in CategoryInputs : d.name = "Salary"} \cup MoreCategoryInputs :
            AddCategory(b.id, data)
    \/ \E name \in TemplateNames, template_categories \in TemplateCategoryInputs :
          CreateTemplate(name, template_categories)
    \/ \E t \in templates : DestroyTemplate(t)
    \/ \E t \in templates, b \in budgets : ApplyTemplate(t, b.id)
    \/ \E budget_id \in {0} \cup {b.id : b \in budgets}, name \in RequestNames,
          overwrite \in BOOLEAN : CfbCheck(budget_id, name, overwrite)
    \/ \E i \in 1..Len(requests) : CfbWrite(i)

SpecTemplates == Init /\ [][NextTemplates]_vars

(***************************************************************************)
(* The whole store: every kind of row is created, changed and deleted next *)
(* to the templates                                                        *)
(***************************************************************************)
\* the body of an update of a category: its serializer fields
CategoryBody(category) ==
    [name |-> category.name, category_type |-> category.category_type,
     order |-> category.order, is_active |-> category.is_active]

\* bodies that rename a category or switch its is_active flag
RenameOrToggle(category) ==
    {[CategoryBody(category) EXCEPT !.name = "Fund"]}
        \cup {[CategoryBody(category) EXCEPT !.is_active = ~category.is_active]}

\* request bodies of an import with at most one entry: a category with an
\* entry of it, two categories of one name, or one tax entry, salary
\* reduction and balance each
StorePayloads ==
    {p \in ImportPayloads \cup MoreImportPayloads :
        /\ p.categories \in ImportCategoryInputs
        /\ \A i \in 1..Len(p.categories) : ImportCategoryValid(p.categories[i])
        /\ Len(p.entries) <= 1
        /\ \A i \in 1..Len(p.entries) :
              /\ p.entries[i].category = 7 /\ p.entries[i].month = 1
              /\ p.entries[i].actual_amount = None /\ p.entries[i].notes = ""
              /\ p.entries[i].planned_amount # None
        /\ Len(p.entries) = 1 => Len(p.categories) = 1
        /\ Len(p.categories) = 1 => Len(p.entries) = 1
        /\ Len(p.tax_entries) = Len(p.salary_reductions)
        /\ Len(p.tax_entries) = Len(p.actual_balances)
        /\ \A i \in 1..Len(p.tax_entries) : ImportTaxValid(p.tax_entries[i])
        /\ \A i \in 1..Len(p.salary_reductions) :
              ImportReductionValid(p.salary_reductions[i])
        /\ \A i \in 1..Len(p.actual_balances) :
              ImportBalanceValid(p.actual_balances[i])}

NextStore ==
    \/ \E name \in BudgetNames : CreateBudget(name)
    \/ \E b \in budgets : DestroyBudget(b.id)
    \/ \E b \in budgets, data \in CategoryInputs : AddCategory(b.id, data)
    \/ \E c \in categories : \E data \in RenameOrToggle(c) : UpdateCategory(c, data)
    \/ \E c \in categories : DestroyCategory(c)
    \/ \E c \in categories, planned \in PlannedInputs, notes \in NotesInputs :
            CreateEntry(c.id, 1, 2026, planned, None, notes)
    \/ \E name \in BudgetNames, timestamp \in Timestamps, payload \in StorePayloads :
            ImportBudget(name, timestamp, payload)
    \/ \E name \in RequestNames, template_categories \in TemplateCategoryInputs :
          CreateTemplate(name, template_categories)
    \/ \E t \in templates : DestroyTemplate(t)
    \/ \E t \in templates, b \in budgets : ApplyTemplate(t, b.id)

SpecStore == Init /\ [][NextStore]_vars

(***************************************************************************)
(* Categories under change: the type and the is_active flag of categories  *)
(* with entries are updated                                                *)
(***************************************************************************)
\* bodies that give a category another type or switch its is_active flag
RetypeOrToggle(category) ==
    {[CategoryBody(category) EXCEPT !.category_type = t] :
        t \in {"INCOME", "FIXED_EXPENSE"} \ {category.category_type}}
        \cup {[CategoryBody(category) EXCEPT !.is_active = ~category.is_active]}

NextCategories ==
    \/ \E name \in {Name("Home")} : CreateBudget(name)
    \/ \E b \in budgets, data \in CategoryInputs : AddCategory(b.id, data)
    \/ \E c \in categories : \E data \in RetypeOrToggle(c) : UpdateCategory(c, data)
    \/ \E c \in categories, year \in YearInputs, planned \in PlannedInputs,
          actual \in ActualInputs \ {Dec(0)}, notes \in NotesInputs :
            CreateEntry(c.id, 1, year, planned, actual, notes)

SpecCategories == Init /\ [][NextCategories]_vars

(***************************************************************************)
(* Claims about the rule engine (checked under SpecRules)                  *)
(***************************************************************************)
StatusDone == call.fn = "calculate_status" /\ call.pc = "done"

\* the actual amount is present and is not 0
ActualNonZero == call.actual_amount.kind # "None" /\ call.actual_amount.v # 0

\* actual / planned * 100 >= k, for planned # 0, stated on the amounts
RatioGE(actual, planned, k) ==
    IF planned > 0 THEN 100 * actual >= k * planned ELSE 100 * actual <= k * planned

\* actual / planned * 100 <= k
RatioLE(actual, planned, k) ==
    IF planned > 0 THEN 100 * actual <= k * planned ELSE 100 * actual >= k * planned

\* C1: for every planned amount and category type, an entry whose actual
\* amount is absent (None) or equal to 0 gets the status WITHIN_BUDGET.
C1_AbsentOrZeroActualIsWithinBudget ==
    (StatusDone /\ (call.actual_amount = None \/ call.actual_amount = Dec(0)))
        => call.run.status = "WITHIN_BUDGET"

\* C1 witness: an INCOME entry with planned 3000.00 and actual 0.00, whose
\* percentage of 0 would otherwise be OVER_BUDGET, was classified.
C1_Witness ==
    /\ StatusDone
    /\ call.category_type = "INCOME"
    /\ call.planned_amount = 30 * AmountUnit
    /\ call.actual_amount = Dec(0)
    /\ call.run.status = "WITHIN_BUDGET"

\* C2: INCOME entry, planned # 0, actual present and non-zero: WITHIN_BUDGET
\* when percentage >= 100, WARNING when 90 <= percentage < 100, OVER_BUDGET
\* otherwise.
C2_IncomeThresholds ==
    (StatusDone /\ call.category_type = "INCOME" /\ call.planned_amount # 0
        /\ ActualNonZero)
        => LET a == call.actual_amount.v
               p == call.planned_amount
           IN call.run.status =
                 IF RatioGE(a, p, 100) THEN "WITHIN_BUDGET"
                 ELSE IF RatioGE(a, p, 90) THEN "WARNING"
                 ELSE "OVER_BUDGET"

\* C2 witness: planned 3000, actual 2800 (93.3%) was classified WARNING.
C2_Witness ==
    /\ StatusDone
    /\ call.category_type = "INCOME"
    /\ call.planned_amount = 30 * AmountUnit
    /\ call.actual_amount = Dec(28 * AmountUnit)
    /\ call.run.status = "WARNING"

\* C3: entry of a non-INCOME category, planned # 0, actual present and
\* non-zero: WITHIN_BUDGET when percentage <= 90, WARNING when
\* 90 < percentage <= 100, OVER_BUDGET otherwise.
C3_ExpenseThresholds ==
    (StatusDone /\ call.category_type # "INCOME" /\ call.planned_amount # 0
        /\ ActualNonZero)
        => LET a == call.actual_amount.v
               p == call.planned_amount
           IN call.run.status =
                 IF RatioLE(a, p, 90) THEN "WITHIN_BUDGET"
                 ELSE IF RatioLE(a, p, 100) THEN "WARNING"
                 ELSE "OVER_BUDGET"

\* C3 witness: a SAVINGS entry with planned 1000 and actual 900, exactly on
\* the 90% boundary, was classified WITHIN_BUDGET.
C3_Witness ==
    /\ StatusDone
    /\ call.category_type = "SAVINGS"
    /\ call.planned_amount = 10 * AmountUnit
    /\ call.actual_amount = Dec(9 * AmountUnit)
    /\ call.run.status = "WITHIN_BUDGET"

\* C4: planned = 0 with a present, non-zero actual, for every category type:
\* OVER_BUDGET if actual > 0 and WITHIN_BUDGET otherwise, and the division by
\* the planned amount is not executed.
C4_ZeroPlannedSpecialCase ==
    (StatusDone /\ call.planned_amount = 0 /\ ActualNonZero)
        => /\ call.run.status =
                 IF call.actual_amount.v > 0 THEN "OVER_BUDGET" ELSE "WITHIN_BUDGET"
           /\ ~call.run.divided

\* C4 witness: an INCOME entry with planned 0 and a negative actual was
\* classified WITHIN_BUDGET without dividing.
C4_Witness ==
    /\ StatusDone
    /\ call.category_type = "INCOME"
    /\ call.planned_amount = 0
    /\ call.actual_amount = Dec(0 - AmountUnit)
    /\ call.run.status = "WITHIN_BUDGET"
    /\ ~call.run.divided

AmountDone == call.fn = "calculate_amount" /\ call.pc = "done"

\* the value of a Decimal result in millionths (scale at most 6)
Millionths(d) ==
    d.coeff * (CASE d.scale = 0 -> 1000000 [] d.scale = 2 -> 10000 [] d.scale = 6 -> 1)

\* C10: calculate_amount(gross) is 0 when gross is absent or 0, for both
\* reduction types; otherwise gross * value / 100 for PERCENTAGE and value
\* for FIXED.  gross and value count hundredths, so gross * value / 100 is
\* gross.v * value millionths and value is value * 10000 millionths.
C10_ReductionAmount ==
    AmountDone
        => Millionths(call.result) =
              IF call.gross_salary = None \/ call.gross_salary.v = 0 THEN 0
              ELSE IF call.reduction_type = "PERCENTAGE"
                   THEN call.gross_salary.v * call.value
                   ELSE call.value * 10000

\* C10 witness: a FIXED reduction of 2.50 asked for a gross salary of 0
\* returned 0.
C10_Witness ==
    /\ AmountDone
    /\ call.reduction_type = "FIXED"
    /\ call.value = 250
    /\ call.gross_salary = Dec(0)
    /\ call.result.coeff = 0

TaxDone == call.fn = "TaxEntry.calculate_amount" /\ call.pc = "done"

\* the Decimal d has the value of `millionths` millionths
ValueIs(d, millionths) ==
    LET unit == CASE d.scale = 0 -> 1000000 [] d.scale = 2 -> 10000
                  [] d.scale = 4 -> 100 [] d.scale = 6 -> 1
    IN millionths % unit = 0 /\ d.coeff = millionths \div unit

\* C11: TaxEntry.calculate_amount(salary) is 0 when salary is absent or 0 and
\* salary * percentage / 100 otherwise (salary.v * percentage millionths); a
\* call of it or of SalaryReduction.calculate_amount changes no stored row,
\* budget entries included.
C11_TaxAmountWithoutEffect ==
    [][(call'.pc = "done" /\ call'.fn \in {"TaxEntry.calculate_amount",
                                            "calculate_amount"})
          => /\ <<dbvars, ownedvars, tplvars>>' = <<dbvars, ownedvars, tplvars>>
             /\ call'.fn = "TaxEntry.calculate_amount"
                   => ValueIs(call'.result,
                              IF call.salary_amount = None \/ call.salary_amount.v = 0
                              THEN 0
                              ELSE call.salary_amount.v * call.percentage)]_vars

\* C11 witness: a tax of 10.50% was computed on a salary of AmountUnit
\* hundredths while the store holds an entry.
C11_Witness ==
    /\ TaxDone
    /\ call.percentage = 1050
    /\ call.salary_amount = Dec(AmountUnit)
    /\ call.result = [coeff |-> AmountUnit * 1050, scale |-> 6]
    /\ entries # {}

(***************************************************************************)
(* Claims about templates (checked under SpecTemplates)                    *)
(***************************************************************************)
ShapeKeys ==
    {"category_type", "order", "input_mode", "custom_months", "custom_start_month"}

\* C12: applying a template to a budget creates one category for each shape
\* whose name the budget does not have yet, with the shape's type, order,
\* input_mode, custom_months and custom_start_month and no yearly_amount; it
\* returns the categories it created, in template order; no existing
\* category (of any budget) is modified and no name is duplicated.
C12_ApplyCreatesMissingOnly ==
    \A t \in templates, b \in budgets :
        LET shapes == t.categories
            applied == apply_to_budget(t, b.id)
            created == applied.created_categories
            old_names == {c.name : c \in CategoriesOf(b.id)}
            missing == {i \in 1..Len(shapes) : shapes[i].name \notin old_names}
        IN /\ categories \subseteq applied.categories
           /\ applied.categories \ categories = {created[j] : j \in 1..Len(created)}
           /\ Len(created) = Cardinality(missing)
           /\ \A j \in 1..Len(created) : \E i \in missing :
                 /\ created[j].name = shapes[i].name
                 /\ created[j].budget = b.id
                 /\ \A k \in ShapeKeys \cap DOMAIN shapes[i] :
                       created[j][k] = shapes[i][k]
                 /\ created[j].yearly_amount = None
                 /\ j = Cardinality({m \in missing : m <= i})
           /\ \A c, d \in applied.categories :
                 (c.budget = d.budget /\ c.name = d.name) => c = d

\* C12 witness: the fixture template was applied to a budget that had a
\* "Salary" category of its own: "Rent" was created from the template (its
\* custom_start_month is unset) and "Salary" is as the client had added it.
C12_Witness ==
    \E c, d \in categories :
        /\ c.budget = d.budget
        /\ c.name = "Salary" /\ c.category_type = "INCOME"
        /\ c.custom_start_month = Num(1)
        /\ d.name = "Rent" /\ d.category_type = "FIXED_EXPENSE" /\ d.order = 2
        /\ d.custom_start_month = None /\ d.yearly_amount = None
        /\ d.id > c.id

\* the request that a step has just received
Received == requests'[Len(requests')]

\* `shapes` lists the budget's active categories by (order, name), each as
\* its name, type, order, input_mode, custom_months and custom_start_month
IsShapeOfActive(shapes, budget_id) ==
    LET active == {c \in categories : c.budget = budget_id /\ c.is_active}
    IN /\ Len(shapes) = Cardinality(active)
       /\ \A c \in active : \E k \in 1..Len(shapes) :
             shapes[k] = [name |-> c.name, category_type |-> c.category_type,
                          order |-> c.order, input_mode |-> c.input_mode,
                          custom_months |-> c.custom_months,
                          custom_start_month |-> c.custom_start_month]
       /\ \A k, l \in 1..Len(shapes) :
             k < l => \/ shapes[k].order < shapes[l].order
                      \/ /\ shapes[k].order = shapes[l].order
                         /\ NameRank(shapes[k].name) < NameRank(shapes[l].name)

\* C13: create_from_budget with overwrite=false and the name of an existing
\* template answers 409 DUPLICATE_NAME, creates no template and leaves the
\* templates as they are.
C13_DuplicateNameConflict ==
    [][(/\ Len(requests') = Len(requests) + 1
        /\ ~Received.overwrite
        /\ \E b \in budgets : b.id = Received.budget_id
        /\ \E t \in templates : t.name = Received.name)
          => /\ Received.pc = "done"
             /\ Received.status = 409
             /\ Received.error = "DUPLICATE_NAME"
             /\ templates' = templates
             /\ nextTemplateId' = nextTemplateId]_vars

\* C13 witness: the only request of the history asked, without overwrite,
\* for the name of a template that exists, and got the conflict.
C13_Witness ==
    /\ Len(requests) = 1
    /\ ~requests[1].overwrite
    /\ requests[1].status = 409 /\ requests[1].error = "DUPLICATE_NAME"
    /\ \E t \in templates : t.name = requests[1].name /\ Len(t.categories) = 2

\* C14: create_from_budget with overwrite=true and the name of an existing
\* template goes on to replace that template's category list by the shape
\* of the budget's active categories: the row keeps its id and name, no row
\* is added, and the answer is 200.  When no template has the name, the
\* handler, whatever the flag, goes on to create one and answers 201.
C14_OverwriteReplaces ==
    [][/\ (/\ Len(requests') = Len(requests) + 1
           /\ \E b \in budgets : b.id = Received.budget_id)
          => /\ (Received.overwrite /\ \E t \in templates : t.name = Received.name)
                  => /\ Received.pc = "update"
                     /\ \E t \in templates : /\ t.name = Received.name
                                              /\ t.id = Received.existing
                     /\ IsShapeOfActive(Received.category_data, Received.budget_id)
             /\ (~\E t \in templates : t.name = Received.name)
                  => /\ Received.pc = "create"
                     /\ IsShapeOfActive(Received.category_data, Received.budget_id)
       /\ \A i \in 1..Len(requests) :
             /\ (/\ requests[i].pc = "update" /\ requests'[i].pc = "done"
                 /\ \E t \in templates : /\ t.id = requests[i].existing
                                          /\ t.name = requests[i].name)
                  => /\ requests'[i].status = 200
                     /\ templates' =
                          {t \in templates : t.id # requests[i].existing}
                            \cup {[id |-> requests[i].existing,
                                   name |-> requests[i].name,
                                   categories |-> requests[i].category_data]}
                     /\ Cardinality(templates') = Cardinality(templates)
             /\ (/\ requests[i].pc = "create" /\ requests'[i].pc = "done"
                 /\ ~\E t \in templates : t.name = requests[i].name)
                  => /\ requests'[i].status = 201
                     /\ templates' = templates
                            \cup {[id |-> nextTemplateId,
                                   name |-> requests[i].name,
                                   categories |-> requests[i].category_data]}]_vars

\* C14 witness: a posted template of two categories was overwritten with the
\* shape of a budget that has one active category.
C14_Witness ==
    \E i \in 1..Len(requests) : \E t \in templates :
        /\ requests[i].overwrite
        /\ requests[i].pc = "done" /\ requests[i].status = 200
        /\ t.id = requests[i].existing /\ t.name = requests[i].name
        /\ t.categories = requests[i].category_data
        /\ Len(t.categories) = 1
        /\ Cardinality(templates) = 1 /\ nextTemplateId = 2

\* C15: two create_from_budget requests for the same new name, both without
\* overwrite and both past the existence check before either inserts, end
\* with one 201 and one 409 DUPLICATE_NAME and exactly one template of that
\* name, however their steps interleave; no two templates ever share a name.
C15_RaceYieldsOneTemplate ==
    /\ \A t, u \in templates : t.name = u.name => t = u
    /\ (/\ Len(requests) = 2
        /\ \A i \in 1..2 : /\ requests[i].pc = "done"
                           /\ requests[i].path = "create"
                           /\ ~requests[i].overwrite
        /\ requests[1].name = requests[2].name
        /\ Cardinality(templates) = nextTemplateId - 1
        /\ nextTemplateId - 1 =
             Cardinality({i \in 1..2 : requests[i].status = 201}))
         => /\ {requests[1].status, requests[2].status} = {201, 409}
            /\ \A i \in 1..2 : requests[i].status = 409
                                 => requests[i].error = "DUPLICATE_NAME"
            /\ Cardinality({t \in templates : t.name = requests[1].name}) = 1

\* C15 witness: both requests found the name free; the one received first
\* inserted second and got the conflict.
C15_Witness ==
    /\ Len(requests) = 2
    /\ \A i \in 1..2 : requests[i].path = "create" /\ ~requests[i].overwrite
    /\ requests[1].name = requests[2].name
    /\ requests[1].pc = "done" /\ requests[1].status = 409
    /\ requests[1].error = "DUPLICATE_NAME"
    /\ requests[2].pc = "done" /\ requests[2].status = 201
    /\ Cardinality(templates) = 1 /\ nextTemplateId = 2

\* C16: the category list that create_from_budget reads is the shape of the
\* budget's active categories at that moment, by (order, name), six fields a
\* shape; the template it writes holds exactly that list; neither step
\* changes a budget, category, entry, tax, reduction or balance.
C16_TemplateIsShapeOfActive ==
    [][/\ (/\ Len(requests') = Len(requests) + 1
           /\ \E b \in budgets : b.id = Received.budget_id)
          => /\ IsShapeOfActive(Received.category_data, Received.budget_id)
             /\ UNCHANGED <<dbvars, ownedvars>>
       /\ \A i \in 1..Len(requests) :
            (/\ requests[i].pc # "done" /\ requests'[i].pc = "done"
             /\ requests'[i].status \in {200, 201})
              => /\ \E t \in templates' :
                      /\ t.name = requests[i].name
                      /\ t.categories = requests[i].category_data
                      /\ templates' \ templates \subseteq {t}
                 /\ UNCHANGED <<dbvars, ownedvars>>]_vars

\* C16 witness: a budget with two active categories of equal order and an
\* inactive one was saved as a new template, which lists the two by name.
C16_Witness ==
    \E i \in 1..Len(requests) : \E t \in templates :
        /\ requests[i].pc = "done" /\ requests[i].status = 201
        /\ t.name = requests[i].name
        /\ t.categories = requests[i].category_data
        /\ Len(t.categories) = 2
        /\ t.categories[1].name = "Rent" /\ t.categories[2].name = "Salary"
        /\ t.categories[1].order = t.categories[2].order
        /\ \E c \in categories : c.budget = requests[i].budget_id /\ ~c.is_active

(***************************************************************************)
(* Claims about the import (checked under SpecImport)                      *)
(***************************************************************************)
\* a budget name that no request of the model uses
UnusedName == Name("Other")

\* the tables of a store, without its identifier counters
Tables(store) ==
    <<store.budgets, store.categories, store.entries, store.tax_entries,
      store.salary_reductions, store.actual_balances>>

\* the store as it is
Store ==
    [budgets |-> budgets, categories |-> categories, entries |-> entries,
     tax_entries |-> tax_entries, salary_reductions |-> salary_reductions,
     actual_balances |-> actual_balances]

\* C17: an import under the name of an existing budget succeeds whenever the
\* same payload would be imported under an unused name: it creates a budget
\* named "<name> (Import <timestamp>)" and keeps every existing row, after
\* any sequence of earlier imports.
C17_CollisionRenamesImport ==
    \A name \in BudgetNames, timestamp \in Timestamps,
       payload \in ImportPayloads \cup MoreImportPayloads :
        (/\ \E b \in budgets : b.name = name
         /\ ImportRun(UnusedName, timestamp, payload).status = 201)
          => LET run == ImportRun(name, timestamp, payload)
             IN /\ run.status = 201
                /\ \E b \in run.budgets \ budgets :
                      /\ b.id = run.budget_id
                      /\ b.name = ImportName(name, timestamp)
                /\ budgets \subseteq run.budgets
                /\ categories \subseteq run.categories
                /\ entries \subseteq run.entries
                /\ tax_entries \subseteq run.tax_entries
                /\ salary_reductions \subseteq run.salary_reductions
                /\ actual_balances \subseteq run.actual_balances

\* C18: an import that ends without the 201 leaves the budgets, categories,
\* entries, tax entries, salary reductions and balances as they were before.
C18_FailedImportLeavesNothing ==
    \A name \in BudgetNames, timestamp \in Timestamps,
       payload \in ImportPayloads \cup MoreImportPayloads :
        LET run == ImportRun(name, timestamp, payload)
        IN run.status # 201 => Tables(run) = Tables(Store)

\* C19: in an import that ends with the 201, every payload entry that names
\* the id of a payload category is stored under the category created from
\* that payload category, with the payload's month, year, planned amount,
\* actual amount and notes; the categories and entries created belong to the
\* new budget, none to a budget that existed before.
C19_ImportRemapsCategories ==
    \A name \in BudgetNames, timestamp \in Timestamps,
       payload \in ImportPayloads \cup MoreImportPayloads :
        LET run == ImportRun(name, timestamp, payload)
            new_categories == run.categories \ categories
            new_entries == run.entries \ entries
        IN run.status = 201 =>
            /\ \A k \in 1..Len(payload.entries), j \in 1..Len(payload.categories) :
                 LET entry_data == payload.entries[k]
                     cat_data == payload.categories[j]
                 IN (cat_data.id # 0 /\ entry_data.category = cat_data.id)
                      => \E c \in new_categories, e \in new_entries :
                            /\ c.name = cat_data.name
                            /\ c.category_type = cat_data.category_type
                            /\ c.order = cat_data.order
                            /\ e.category = c.id
                            /\ e.month = entry_data.month
                            /\ e.year = entry_data.year
                            /\ e.planned_amount = ToDecimal(entry_data.planned_amount)
                            /\ e.actual_amount =
                                 to_internal_value(entry_data.actual_amount)
                            /\ e.notes = entry_data.notes
            /\ ~\E b \in budgets : b.id = run.budget_id
            /\ \E b \in run.budgets : b.id = run.budget_id
            /\ \A c \in new_categories : c.budget = run.budget_id
            /\ \A e \in new_entries : \E c \in new_categories : e.category = c.id
            /\ categories \subseteq run.categories
            /\ entries \subseteq run.entries

\* C19 witness: a payload of two categories with an entry each, notes
\* included, has been imported beside nothing else.
C19_Witness ==
    /\ Cardinality(budgets) = 1
    /\ \E c, d \in categories, e, f \in entries :
        /\ c.name = "Salary" /\ d.name = "Fund"
        /\ e.category = c.id /\ e.month = 1 /\ e.notes = "imported"
        /\ e.actual_amount # None
        /\ f.category = d.id /\ f.month = MAX_MONTH /\ f.notes = "imported"
        /\ f.actual_amount = None

\* the eight fields that make the shape of a category
Shape(c) ==
    [name |-> c.name, category_type |-> c.category_type, order |-> c.order,
     is_active |-> c.is_active, input_mode |-> c.input_mode,
     custom_months |-> c.custom_months,
     custom_start_month |-> c.custom_start_month,
     yearly_amount |-> c.yearly_amount]

\* the amounts of the entries of the categories `cats`, by category name
EntryAmounts(cats, ents) ==
    {[name |-> c.name, month |-> e.month, year |-> e.year,
      planned_amount |-> e.planned_amount, actual_amount |-> e.actual_amount] :
        <<c, e>> \in {p \in cats \X ents : p[2].category = p[1].id}}

\* C20: importing the summary of a budget unchanged yields a new budget
\* whose categories have the shapes of the source's categories and whose
\* entries have, per category, the source's months, years and amounts, each
\* with the status computed from its amounts.
C20_SummaryRoundTrip ==
    \A b \in budgets, timestamp \in Timestamps :
        (~\E x \in budgets : x.name = ImportName(b.name, timestamp)) =>
            LET run == ImportRun(b.name, timestamp, Summary(b.id))
                source == CategoriesOf(b.id)
                copy == {c \in run.categories : c.budget = run.budget_id}
            IN /\ run.status = 201
               /\ run.budget_id # b.id
               /\ {Shape(c) : c \in copy} = {Shape(c) : c \in source}
               /\ EntryAmounts(copy, run.entries) = EntryAmounts(source, entries)
               /\ \A c \in copy, e \in run.entries :
                    e.category = c.id
                      => e.status = calculate_status(e.planned_amount,
                                        e.actual_amount, c.category_type)

(***************************************************************************)
(* Claims about entry writes (checked under Spec)                          *)
(***************************************************************************)
\* the status classification of a planned amount, a stored actual amount
\* (None or Decimal) and a category type
Classification(planned, actual, category_type) ==
    IF actual = None \/ actual.v = 0 THEN "WITHIN_BUDGET"
    ELSE IF planned = 0
         THEN (IF actual.v > 0 THEN "OVER_BUDGET" ELSE "WITHIN_BUDGET")
    ELSE IF category_type = "INCOME"
         THEN (IF RatioGE(actual.v, planned, 100) THEN "WITHIN_BUDGET"
               ELSE IF RatioGE(actual.v, planned, 90) THEN "WARNING"
               ELSE "OVER_BUDGET")
    ELSE (IF RatioLE(actual.v, planned, 90) THEN "WITHIN_BUDGET"
          ELSE IF RatioLE(actual.v, planned, 100) THEN "WARNING"
          ELSE "OVER_BUDGET")

\* C5: after every write of an entry (create, update, partial update,
\* PATCH .../actual, creation during import) the status stored with the row
\* is the classification of the planned amount, actual amount and category
\* type stored by that write.
C5_WrittenStatusIsClassification ==
    [][\A e \in entries' \ entries :
          e.status = Classification(e.planned_amount, e.actual_amount,
                        (CHOOSE c \in categories' : c.id = e.category).category_type)]_vars

(***************************************************************************)
(* Claims about aggregation (checked under Spec)                           *)
(***************************************************************************)
\* the sum of the values of a function with a finite domain
RECURSIVE SumFn(_)
SumFn(f) ==
    IF DOMAIN f = {} THEN 0
    ELSE LET x == CHOOSE d \in DOMAIN f : TRUE
         IN f[x] + SumFn([d \in DOMAIN f \ {x} |-> f[d]])

\* the rows of a category for one month of one year
RowsOf(category_id, month, year) ==
    {e \in entries : e.category = category_id /\ e.month = month /\ e.year = year}

\* C6: the amount the monthly summary counts for an entry is its actual
\* amount whenever one is recorded (not None, whatever its value) and its
\* planned amount only when the actual amount is absent.
C6_CountsActualWheneverRecorded ==
    \A b \in budgets, m \in MonthInputs, y \in YearInputs :
        LET s == get_monthly_summary(b.id, m, y)
            claimed == [e \in s.entries |->
                          IF e.actual_amount # None THEN e.actual_amount.v
                          ELSE e.planned_amount]
        IN s.total_income + s.total_expenses = SumFn(claimed)

\* the amount counted for a category in a period: that of its row, if any
Counted(category_id, month, year) ==
    SumFn([e \in RowsOf(category_id, month, year) |-> EntryAmount(e)])

\* C7: get_monthly_summary(budget, month, year) counts exactly the entries of
\* the budget's categories with that month and year; total_income sums the
\* counted amounts over INCOME categories, total_expenses over all other
\* categories, balance = total_income - total_expenses.
C7_MonthlySummary ==
    \A b \in budgets, m \in 1..MAX_MONTH, y \in YearInputs :
        LET s == get_monthly_summary(b.id, m, y)
            cats == {c \in categories : c.budget = b.id}
            income == {c \in cats : c.category_type = "INCOME"}
        IN /\ s.entries = {e \in entries : /\ e.month = m
                                           /\ e.year = y
                                           /\ \E c \in cats : e.category = c.id}
           /\ s.total_income = SumFn([c \in income |-> Counted(c.id, m, y)])
           /\ s.total_expenses = SumFn([c \in cats \ income |-> Counted(c.id, m, y)])
           /\ s.balance = s.total_income - s.total_expenses

\* C7 witness: a budget with an INCOME entry of 1000 and a SAVINGS entry of
\* 900 in one month has the summary 1000 / 900 / 100.
C7_Witness ==
    \E b \in budgets, m \in MonthInputs, y \in YearInputs :
        LET s == get_monthly_summary(b.id, m, y)
        IN /\ Cardinality(s.entries) = 2
           /\ \E e \in s.entries : CategoryById(e.category).category_type = "SAVINGS"
           /\ s.total_income = 10 * AmountUnit
           /\ s.total_expenses = 9 * AmountUnit
           /\ s.balance = AmountUnit

\* C8: get_yearly_summary(budget, year) holds the 12 monthly summaries of
\* months 1..12 of that year in order; total_income and total_expenses are
\* the sums of the monthly ones, balance is their difference and the sum of
\* the monthly balances; without entries in the year all three are 0.
C8_YearlySummary ==
    \A b \in budgets, y \in YearInputs :
        LET ys == get_yearly_summary(b.id, y)
            ms == ys.monthly_summaries
        IN /\ ys.year = y
           /\ Len(ms) = 12
           /\ \A m \in 1..12 : /\ ms[m].month = m
                               /\ ms[m].year = y
                               /\ ms[m].entries = MonthlyEntries(b.id, m, y)
           /\ ys.total_income = SumFn([m \in 1..12 |-> ms[m].total_income])
           /\ ys.total_expenses = SumFn([m \in 1..12 |-> ms[m].total_expenses])
           /\ ys.balance = ys.total_income - ys.total_expenses
           /\ ys.balance = SumFn([m \in 1..12 |-> ms[m].balance])
           /\ ys.total_income =
                 SumFn([e \in {x \in EntriesOf(b.id) : x.year = y /\ CountsAsIncome(x)}
                          |-> EntryAmount(e)])
           /\ ys.total_expenses =
                 SumFn([e \in {x \in EntriesOf(b.id) : x.year = y /\ ~CountsAsIncome(x)}
                          |-> EntryAmount(e)])
           /\ ({e \in EntriesOf(b.id) : e.year = y} = {}
                 => ys.total_income = 0 /\ ys.total_expenses = 0 /\ ys.balance = 0)

\* C8 witness: a budget with income of 1000 in January and of 900 in
\* December 2026 has the yearly income 1900.
C8_Witness ==
    \E b \in budgets :
        LET ys == get_yearly_summary(b.id, 2026)
        IN /\ ys.monthly_summaries[1].total_income = 10 * AmountUnit
           /\ ys.monthly_summaries[12].total_income = 9 * AmountUnit
           /\ ys.total_income = 19 * AmountUnit
           /\ ys.balance = 19 * AmountUnit

\* C9: get_monthly_total and get_yearly_total of a category return
\* total_planned = the sum of the planned amounts of its entries in the
\* period and total_actual = the sum of their actual amounts, an absent
\* actual counting 0; the planned amount never stands in for it.
C9_CategoryTotals ==
    \A c \in categories, y \in YearInputs :
        LET yearRows == {e \in entries : e.category = c.id /\ e.year = y}
            yt == get_yearly_total(c.id, y)
        IN /\ yt.year = y
           /\ yt.total_planned = SumFn([e \in yearRows |-> e.planned_amount])
           /\ yt.total_actual =
                 SumFn([e \in yearRows |->
                          IF e.actual_amount = None THEN 0 ELSE e.actual_amount.v])
           /\ \A m \in 1..MAX_MONTH :
                LET mt == get_monthly_total(c.id, m, y)
                    rows == RowsOf(c.id, m, y)
                IN /\ mt.month = m /\ mt.year = y
                   /\ mt.total_planned = SumFn([e \in rows |-> e.planned_amount])
                   /\ mt.total_actual =
                         SumFn([e \in rows |->
                                  IF e.actual_amount = None THEN 0
                                  ELSE e.actual_amount.v])

\* C9 witness: a category with two entries in 2026, planned 1000 each, one
\* without an actual amount and one with 900, totals 2000 planned and 900
\* actual, while its budget's yearly summary counts 1900.
C9_Witness ==
    \E c \in categories :
        LET yt == get_yearly_total(c.id, 2026)
        IN /\ \E e \in entries : /\ e.category = c.id /\ e.year = 2026
                                 /\ e.actual_amount = None
                                 /\ e.planned_amount = 10 * AmountUnit
           /\ yt.total_planned = 20 * AmountUnit
           /\ yt.total_actual = 9 * AmountUnit
           /\ get_monthly_total(c.id, 1, 2026).total_actual
                 + get_monthly_total(c.id, 12, 2026).total_actual = 9 * AmountUnit

(***************************************************************************)
(* Claims about the whole store (checked under SpecStore)                  *)
(***************************************************************************)
\* each row that belongs to a budget or a category has exactly one owner
Owned ==
    /\ \A x \in categories \cup tax_entries \cup salary_reductions \cup actual_balances :
          Cardinality({b \in budgets : b.id = x.budget}) = 1
    /\ \A e \in entries : Cardinality({c \in categories : c.id = e.category}) = 1

\* C21: every category, tax entry, salary reduction and balance belongs to
\* exactly one existing budget and every entry to exactly one existing
\* category; a step that deletes a budget removes its categories, their
\* entries, its tax entries, reductions and balances, no row of another
\* budget, and leaves the templates as they are.
C21_OwnershipAndCascade ==
    /\ []Owned
    /\ [][(budgets' # budgets /\ budgets' \subseteq budgets)
            => LET gone == {b.id : b \in budgets \ budgets'}
                   gone_categories == {c.id : c \in {x \in categories : x.budget \in gone}}
               IN /\ categories' = {c \in categories : c.budget \notin gone}
                  /\ entries' = {e \in entries : e.category \notin gone_categories}
                  /\ tax_entries' = {t \in tax_entries : t.budget \notin gone}
                  /\ salary_reductions' =
                        {r \in salary_reductions : r.budget \notin gone}
                  /\ actual_balances' = {a \in actual_balances : a.budget \notin gone}
                  /\ templates' = templates]_vars

\* C21 witness: of two budgets with a category each, the first has been
\* deleted with its category; the other's category and a template remain.
C21_Witness ==
    /\ nextBudgetId = 3 /\ nextCategoryId = 3
    /\ \E b \in budgets : b.id = 2
    /\ ~\E b \in budgets : b.id = 1
    /\ \E c \in categories : c.budget = 2
    /\ Cardinality(categories) = 1
    /\ templates # {}

\* no two rows share a key that the claim names
Unique ==
    /\ \A b, c \in budgets : b.name = c.name => b = c
    /\ \A t, u \in templates : t.name = u.name => t = u
    /\ \A c, d \in categories : (c.budget = d.budget /\ c.name = d.name) => c = d
    /\ \A e, f \in entries :
          (e.category = f.category /\ e.month = f.month /\ e.year = f.year) => e = f

\* C22: budget names, template names, category names within a budget and
\* the (category, month, year) of entries are unique in every reachable
\* state, and an import whose payload names two categories alike, which
\* would create a duplicate, leaves the store as it was.
C22_UniqueAndDuplicatesRejected ==
    /\ Unique
    /\ \A name \in BudgetNames, timestamp \in Timestamps, payload \in StorePayloads :
          (\E i, j \in 1..Len(payload.categories) :
               i < j /\ payload.categories[i].name = payload.categories[j].name)
            => Tables(ImportRun(name, timestamp, payload)) = Tables(Store)

\* C23: every response with an error status (400, 404, 409, 500) has a body
\* with an `error` field, and an exception that no handler anticipates is
\* answered with 500 and such a body.
C23_ErrorResponsesCarryError ==
    /\ \A r \in Responses : r.status >= 400 => "error" \in r.keys
    /\ \A exc \in Exceptions \ {"Http404", "BrokenPipeError"} :
          /\ rest_framework_exception_handler(exc).status = 500
          /\ "error" \in rest_framework_exception_handler(exc).keys

(***************************************************************************)
(* Claims about client disconnects (checked under SpecWsgi)                *)
(***************************************************************************)
\* a broken pipe as the claim defines it
BrokenPipe(e) ==
    \/ e.type = "BrokenPipeError"
    \/ e.type = "OSError" /\ (e.errno = 32 \/ e.broken_msg)

\* C24: a broken pipe raised while the application is called, in
\* start_response, on next() or on close() of the response, or under the
\* middleware, never reaches the caller: the wrapper returns an empty
\* response, the iteration ends, close returns, the middleware returns a
\* response.  Another OSError reaches the caller as it was raised.
C24_BrokenPipeSuppressed ==
    [][/\ call'.pc = "raised" => ~BrokenPipe(call'.exc)
       /\ (call.fn = "wsgi" /\ call'.stage = "call") =>
            LET e == IF call.application # NoExc THEN call.application
                     ELSE call.start_response
            IN /\ BrokenPipe(e) => call'.pc = "returned"
               /\ (e.type = "OSError" /\ ~BrokenPipe(e))
                    => call'.pc = "raised" /\ call'.exc = e
       /\ (call.pc = "iterating" /\ call'.stage = "next") =>
            /\ BrokenPipe(call.next) => call'.pc = "exhausted"
            /\ (call.next.type = "OSError" /\ ~BrokenPipe(call.next))
                 => call'.pc = "raised" /\ call'.exc = call.next
       /\ (call'.stage = "close" /\ call.has_close) =>
            /\ BrokenPipe(call.close) => call'.pc = "closed"
            /\ (call.close.type = "OSError" /\ ~BrokenPipe(call.close))
                 => call'.pc = "raised" /\ call'.exc = call.close
       /\ (call.fn = "middleware" /\ call'.stage = "call") =>
            /\ BrokenPipe(call.get_response) => call'.pc = "returned"
            /\ (call.get_response.type = "OSError" /\ ~BrokenPipe(call.get_response))
                 => call'.pc = "raised" /\ call'.exc = call.get_response]_vars

\* C24 witness: start_response raised a broken pipe and the wrapper returned
\* the empty response.
C24_Witness ==
    /\ call.fn = "wsgi" /\ call.pc = "returned"
    /\ call.application = NoExc
    /\ call.start_response = Exc("OSError", 5, TRUE)
    /\ call.response_sent

(***************************************************************************)
(* Claims about the export (checked under SpecStore)                       *)
(***************************************************************************)
TypeRank(category_type) ==
    CHOOSE i \in 1..Len(ExportTypeOrder) : ExportTypeOrder[i] = category_type

\* the sum of the values of twelve cells
RECURSIVE SumCells(_, _)
SumCells(cells, month) ==
    IF month > 12 THEN 0 ELSE cells[month].value + SumCells(cells, month + 1)

\* the cell of month m holds the amount of the category's entry of month m
\* and the fill of its status, or 0 without fill when there is none
CellShowsEntry(cell, category, month, year) ==
    LET es == {e \in entries : e.category = category.id /\ e.month = month
                               /\ e.year = year}
    IN /\ es = {} => cell = [value |-> 0, fill |-> "none"]
       /\ \A e \in es :
            /\ cell.value = (IF e.actual_amount # None THEN ToDecimal(e.actual_amount)
                             ELSE e.planned_amount)
            /\ cell.fill = e.status

\* C25: the export of a budget has one data row per active category and
\* none for an inactive one, grouped by type in the order INCOME,
\* FIXED_EXPENSE, VARIABLE_EXPENSE, SAVINGS; a month's cell holds the amount
\* of the entry of that month with the fill of its status, or 0 without
\* fill; the total of a row is the sum of its twelve cells.
C25_ExportRows ==
    \A b \in budgets :
        LET sheet == export_budget_to_excel(b)
            active == {c \in CategoriesOf(b.id) : c.is_active}
        IN /\ sheet.raised = "none"
           /\ Len(sheet.rows) = Cardinality(active)
           /\ \A c \in active : \E k \in 1..Len(sheet.rows) : sheet.rows[k].name = c.name
           /\ \A k, l \in 1..Len(sheet.rows) :
                k < l => TypeRank(sheet.rows[k].category_type)
                           <= TypeRank(sheet.rows[l].category_type)
           /\ \E year \in YearInputs :
                \A k \in 1..Len(sheet.rows), c \in active :
                    sheet.rows[k].name = c.name =>
                        /\ \A month \in 1..12 :
                              CellShowsEntry(sheet.rows[k].cells[month], c, month, year)
                        /\ sheet.rows[k].total = SumCells(sheet.rows[k].cells, 1)

\* C26: the balance cell of month m is the balance of get_monthly_summary
\* for m and the exported year, and the yearly balance cell is the balance
\* of get_yearly_summary for that year, the sum of the twelve monthly cells.
C26_ExportBalanceRow ==
    \A b \in budgets :
        LET sheet == export_budget_to_excel(b)
        IN /\ sheet.raised = "none"
           /\ \E year \in YearInputs :
                /\ Len(sheet.balances) = 12
                /\ \A month \in 1..12 :
                      sheet.balances[month] =
                          get_monthly_summary(b.id, month, year).balance
                /\ sheet.yearly_balance = get_yearly_summary(b.id, year).balance

(***************************************************************************)
(* Claims about PATCH /entries/{id}/actual (checked under Spec)            *)
(***************************************************************************)
\* C27: PATCH /entries/{id}/actual with an actual_amount replaces the entry
\* by one that differs in the actual amount, which is the request's, and in
\* the status at most, and leaves the other entries as they are; with
\* actual_amount missing or null it answers 400 and changes no entry.
C27_ActualChangesActualOnly ==
    \A e \in entries, actual_amount \in RawActualInputs :
        LET run == ActualRun(e, actual_amount)
        IN IF actual_amount = None
           THEN run.status = 400 /\ run.entries = entries
           ELSE /\ run.status = 200
                /\ \E new \in run.entries :
                      /\ run.entries \ {new} = entries \ {e}
                      /\ new.actual_amount = Dec(actual_amount.v)
                      /\ new.status \in STATUS_CHOICES
                      /\ [new EXCEPT !.actual_amount = e.actual_amount,
                                     !.status = e.status] = e

\* C27 witness: an entry without an actual amount beside another entry; the
\* PATCH with an amount changes it and keeps the other, the PATCH without
\* one changes nothing.
C27_Witness ==
    \E e, f \in entries :
        /\ e # f
        /\ e.actual_amount = None
        /\ ActualRun(e, Str(9 * AmountUnit)).entries # entries
        /\ f \in ActualRun(e, Str(9 * AmountUnit)).entries
        /\ ActualRun(e, None).entries = entries

(***************************************************************************)
(* Claims about categories under change (checked under SpecCategories)     *)
(***************************************************************************)
\* C28: in every reachable state the status stored with an entry is the
\* classification of its planned amount, its actual amount and the type its
\* category has now.
C28_StatusFollowsCategoryType ==
    \A e \in entries :
        e.status = Classification(e.planned_amount, e.actual_amount,
                                  CategoryById(e.category).category_type)

\* the totals of a summary
Totals(summary) ==
    <<summary.total_income, summary.total_expenses, summary.balance>>

\* C30: a step that changes nothing but is_active flags of categories
\* changes no total_income, total_expenses or balance of a monthly or
\* yearly summary of any budget, entries of inactive categories included.
C30_SummariesIgnoreActivity ==
    [][(/\ entries' = entries /\ budgets' = budgets
        /\ categories' # categories
        /\ {[c EXCEPT !.is_active = TRUE] : c \in categories'}
             = {[c EXCEPT !.is_active = TRUE] : c \in categories})
         => \A b \in budgets, year \in YearInputs :
              /\ Totals(get_yearly_summary(b.id, year))'
                   = Totals(get_yearly_summary(b.id, year))
              /\ \A month \in MonthInputs :
                   Totals(get_monthly_summary(b.id, month, year))'
                     = Totals(get_monthly_summary(b.id, month, year))]_vars

\* C30 witness: an inactive category holds an entry with an amount, and the
\* monthly summary of its budget counts it.
C30_Witness ==
    \E c \in categories, e \in entries :
        /\ ~c.is_active /\ e.category = c.id
        /\ e.actual_amount = Dec(9 * AmountUnit)
        /\ c.category_type = "INCOME"
        /\ get_monthly_summary(c.budget, e.month, e.year).total_income
             = 9 * AmountUnit

(***************************************************************************)
(* Claims about overwriting under concurrency (checked under SpecTemplates) *)
(***************************************************************************)

\* C29: a create_from_budget request with overwrite=true never ends with the
\* DUPLICATE_NAME conflict, whatever other create_from_budget requests for the
\* same name run beside it: it answers 201 or 200.  The case looked at is
\* the one where the only template ever stored was created by another
\* create_from_budget request for the same name.
C29_OverwriteNeverConflicts ==
    \A i \in 1..Len(requests) :
        (/\ requests[i].overwrite /\ requests[i].pc = "done"
         /\ \E j \in 1..Len(requests) :
               /\ j # i /\ requests[j].name = requests[i].name
               /\ requests[j].pc = "done" /\ requests[j].status = 201
               /\ Cardinality(templates) = 1 /\ nextTemplateId = 2)
            => ~(requests[i].status = 409 /\ requests[i].error = "DUPLICATE_NAME")

====
